---- MODULE Spec2Model ----
(***************************************************************************)
(* RescuNet: the bounding-box graph cache (backend/app/cache.py) and the   *)
(* graph phase of the route-solving endpoint (backend/app/main.py,         *)
(* backend/app/utils.py), as a state machine.                              *)
(*                                                                         *)
(* Time is the value of time(): seconds, advanced by Tick.  A float that   *)
(* holds a coordinate is a sign and a magnitude, as in IEEE 754, so that   *)
(* 0.0 and -0.0 are two representations of one number.                     *)
(***************************************************************************)
EXTENDS Integers, Sequences, FiniteSets, TLC

\* ------------------------------------------------------------------ bounds
\* The clock advances ClockStep seconds per Tick, up to MaxClock ticks; in
\* the specification of the bursts of hits, BurstStep seconds up to
\* MaxClockBurst ticks; in the concurrent one, ConcStep seconds up to
\* MaxClockConc ticks.
ClockStep == 86400
MaxClock == 8
BurstStep == 75600
MaxClockBurst == 9
ConcStep == 43200
MaxClockConc == 3

\* ------------------------------------------------------- program constants
ACCESS_TTL_SECONDS == 24 * 3600
DOWNLOAD_TTL_SECONDS == 7 * 24 * 3600
ROUND == 5

Procs == {1, 2}
\* An optional value: None is the empty set, a value x is {x}.
None == {}
Some(x) == {x}
The(s) == CHOOSE x \in s : TRUE

\* ---------------------------------------------------------------- floats
\* A coordinate as the request carries it: sign and magnitude in units of
\* 10^-6 degree.  A rounded coordinate: sign and magnitude in units of
\* 10^-ROUND degree.
Flt(neg, mag) == [neg |-> neg, mag |-> mag]

\* Python's == on floats: -0.0 == 0.0.
FloatEq(a, b) == a.mag = b.mag /\ (a.mag = 0 \/ a.neg = b.neg)

\* round(float(x), ROUND) for a 6-decimal input whose last digit is not 5:
\* the nearest multiple of 10^-5; the sign bit is kept, so a small negative
\* input rounds to -0.0.
round(x, nd) == Flt(x.neg, (x.mag + 5) \div 10)

\* The bounding boxes of the requests: they differ in the east field, which
\* is 0.000001, -0.000001 or 0.000004.
Box(e) == [north |-> Flt(FALSE, 51500000), south |-> Flt(FALSE, 51400000),
           east |-> e, west |-> Flt(TRUE, 100000)]
BBoxes == {Box(Flt(FALSE, 1)), Box(Flt(TRUE, 1)), Box(Flt(FALSE, 4))}

normalize_bbox(b) ==
    [north |-> round(b.north, ROUND), south |-> round(b.south, ROUND),
     east |-> round(b.east, ROUND), west |-> round(b.west, ROUND)]

\* f"{x}" of a float: repr() writes the sign of a negative number, the sign
\* of -0.0 included ("-0.0"), then the digits.
format(x) == <<IF x.neg THEN "-" ELSE "", x.mag>>

\* sha1(raw).hexdigest(): a digest that no two of the raw strings share.
sha1(raw) == <<"sha1", raw>>

make_bbox_key(b) ==
    LET n == normalize_bbox(b)
        raw == <<format(n.north), format(n.south), format(n.east), format(n.west)>>
    IN  sha1(raw)

\* Two boxes round to the same 5-decimal values on all four fields.
SameRounded(b1, b2) ==
    LET n1 == normalize_bbox(b1)
        n2 == normalize_bbox(b2)
    IN  /\ FloatEq(n1.north, n2.north) /\ FloatEq(n1.south, n2.south)
        /\ FloatEq(n1.east, n2.east) /\ FloatEq(n1.west, n2.west)

Keys == {make_bbox_key(b) : b \in BBoxes}

\* ---------------------------------------------------------------- graphs
\* A MultiDiGraph / MultiGraph: its nodes and, per edge (u, v, key), the
\* edge's attributes.  state = "absent": the edge has no 'state' attribute,
\* as every edge of a downloaded graph.
Graph(directed, nodes, edges) == [directed |-> directed, nodes |-> nodes, edges |-> edges]
Attr(state) == [state |-> state]

GraphA == Graph(TRUE, {1, 2, 3},
                [e \in {<<1, 2, 0>>, <<2, 1, 0>>, <<2, 3, 0>>} |-> Attr("absent")])
GraphB == Graph(TRUE, {1, 2},
                [e \in {<<1, 2, 0>>, <<2, 1, 0>>} |-> Attr("absent")])
\* What the road-network source can return for a bounding box.
Downloads == {GraphA, GraphB}

\* Order on (u, v, key).
EdgeLess(a, b) ==
    \/ a[1] < b[1]
    \/ a[1] = b[1] /\ a[2] < b[2]
    \/ a[1] = b[1] /\ a[2] = b[2] /\ a[3] < b[3]

RECURSIVE NodeList(_)
NodeList(S) ==
    IF S = {} THEN <<>>
    ELSE LET m == CHOOSE x \in S : \A y \in S : x <= y
         IN  <<m>> \o NodeList(S \ {m})

RECURSIVE EdgeList(_, _)
EdgeList(E, S) ==
    IF S = {} THEN <<>>
    ELSE LET m == CHOOSE x \in S : \A y \in S \ {x} : EdgeLess(x, y)
         IN  <<<<m[1], m[2], m[3], E[m].state>>>> \o EdgeList(E, S \ {m})

\* pickle.dumps(G): the graph written out as a byte string, here the list
\* of its nodes and the list of its edges with their attributes.
dumps(g) == [directed |-> g.directed, nodes |-> NodeList(g.nodes),
             edges |-> EdgeList(g.edges, DOMAIN g.edges)]

\* pickle.loads(blob): a new graph object built from the byte string.
loads(b) ==
    LET idx == 1 .. Len(b.edges)
        ids == {<<b.edges[i][1], b.edges[i][2], b.edges[i][3]>> : i \in idx}
    IN  Graph(b.directed,
              {b.nodes[i] : i \in 1 .. Len(b.nodes)},
              [e \in ids |-> Attr(b.edges[CHOOSE i \in idx :
                   <<b.edges[i][1], b.edges[i][2], b.edges[i][3]>> = e][4])])

\* -------------------------------------------------------- graph edits
Min2(a, b) == IF a <= b THEN a ELSE b
Max2(a, b) == IF a <= b THEN b ELSE a

\* The place of edge (u, v, key) in the graph: in a MultiGraph (u, v, key)
\* and (v, u, key) are one edge.
EdgeId(g, u, v, k) == IF g.directed THEN <<u, v, k>> ELSE <<Min2(u, v), Max2(u, v), k>>

\* G.has_edge(u, v, key).
has_edge(g, u, v, k) == EdgeId(g, u, v, k) \in DOMAIN g.edges

\* G[u][v].keys(): the keys of the parallel edges from u to v.
KeysBetween(g, u, v) ==
    {e[3] : e \in {d \in DOMAIN g.edges : d = EdgeId(g, u, v, d[3])}}

\* G.has_edge(u, v), any key.
has_any_edge(g, u, v) == KeysBetween(g, u, v) # {}

\* G.copy(): a new graph object with the same nodes, edges and attributes.
copy(g) == Graph(g.directed, g.nodes, g.edges)

\* G.to_undirected() of a MultiDiGraph: the edges are added node by node,
\* so of (u, v, key) and (v, u, key) the attributes of the one added last,
\* from the larger node, are kept.
to_undirected(g) ==
    LET ids == {<<Min2(e[1], e[2]), Max2(e[1], e[2]), e[3]>> : e \in DOMAIN g.edges}
    IN  Graph(FALSE, g.nodes,
              [i \in ids |-> IF <<i[2], i[1], i[3]>> \in DOMAIN g.edges
                               THEN g.edges[<<i[2], i[1], i[3]>>]
                               ELSE g.edges[i]])

\* set_edge_attributes(G, {(u, v, key): {"state": state}}).
SetState(g, u, v, k, state) ==
    [g EXCEPT !.edges = [e \in DOMAIN g.edges |->
        IF e = EdgeId(g, u, v, k) THEN [g.edges[e] EXCEPT !.state = state] ELSE g.edges[e]]]

\* (mutant: the edges from v to u are left alone)
EditOne_ForwardOnly(g, m) ==
    IF has_edge(g, m.u, m.v, m.key) THEN SetState(g, m.u, m.v, m.key, m.state) ELSE g

\* One pass of the loop of edit_edges: the edge (u, v, key) if it exists,
\* then every parallel edge from v to u.
EditOne(g, m) ==
    LET g1 == IF has_edge(g, m.u, m.v, m.key) THEN SetState(g, m.u, m.v, m.key, m.state) ELSE g
    IN  [g1 EXCEPT !.edges = [e \in DOMAIN g1.edges |->
            IF \E k \in KeysBetween(g1, m.v, m.u) : e = EdgeId(g1, m.v, m.u, k)
            THEN [g1.edges[e] EXCEPT !.state = m.state] ELSE g1.edges[e]]]

\* edit_edges(G, edges).
RECURSIVE edit_edges(_, _)
edit_edges(g, mods) ==
    IF mods = <<>> THEN g ELSE edit_edges(EditOne(g, Head(mods)), Tail(mods))

\* G.add_edge(u, v, key=k, **attr): a new edge, or new attributes for the
\* edge that holds the place.
add_edge(g, u, v, k, attr) ==
    LET id == EdgeId(g, u, v, k)
    IN  [g EXCEPT !.nodes = @ \cup {u, v},
                  !.edges = [e \in DOMAIN g.edges \cup {id} |->
                                IF e = id THEN attr ELSE g.edges[e]]]

\* G.remove_edge(u, v, key).
remove_edge(g, u, v, k) ==
    [g EXCEPT !.edges = [e \in DOMAIN g.edges \ {EdgeId(g, u, v, k)} |-> g.edges[e]]]

\* (mutant: the node is added before the edge is looked for)
split_edge_at_point_NodeFirst(g, u, v, k, new_node_id) ==
    LET g1 == [g EXCEPT !.nodes = @ \cup {new_node_id}]
    IN  IF ~has_edge(g, u, v, k) THEN [G |-> g1, id |-> None]
        ELSE LET data == g.edges[EdgeId(g, u, v, k)]
                 g2 == add_edge(g1, u, new_node_id, 0, data)
                 g3 == add_edge(g2, new_node_id, v, 0, data)
             IN  [G |-> remove_edge(g3, u, v, k), id |-> Some(new_node_id)]

\* split_edge_at_point(G, u, v, key, point_coords), new_node_id being what
\* hash(f"{u}-{v}-{key}-{time()}") % 10000000 * -1 comes to: the graph
\* after the call and the value returned.
split_edge_at_point(g, u, v, k, new_node_id) ==
    IF ~has_edge(g, u, v, k) THEN [G |-> g, id |-> None]
    ELSE LET data == g.edges[EdgeId(g, u, v, k)]
             g1 == [g EXCEPT !.nodes = @ \cup {new_node_id}]
             g2 == add_edge(g1, u, new_node_id, 0, data)
             g3 == add_edge(g2, new_node_id, v, 0, data)
         IN  [G |-> remove_edge(g3, u, v, k), id |-> Some(new_node_id)]

\* A point of a request, as integrate_nodes_into_graph sees it: the edge
\* its coordinates lie nearest to, and its distance in metres to the nodes.
Point(on, d) == [on |-> on, d |-> d]

MinEdge(S) == CHOOSE x \in S : \A y \in S \ {x} : EdgeLess(x, y)

\* nearest_edges(G_undir, x, y): the edge the point lies nearest to; in a
\* graph without that edge, another edge.
nearest_edges(gu, pt) ==
    IF pt.on \in DOMAIN gu.edges THEN pt.on ELSE MinEdge(DOMAIN gu.edges)

\* edge_data.get('state', 'clear') of the edge data integrate_nodes_into_graph
\* retrieves for (u, v, key).
EffectiveState(g, u, v, k) ==
    LET data ==
          IF has_edge(g, u, v, k) THEN Some(g.edges[EdgeId(g, u, v, k)])
          ELSE IF has_edge(g, v, u, k) THEN Some(g.edges[EdgeId(g, v, u, k)])
          ELSE IF has_any_edge(g, u, v)
               THEN Some(g.edges[EdgeId(g, u, v, MinEdge({<<u, v, x>> : x \in KeysBetween(g, u, v)})[3])])
          ELSE IF has_any_edge(g, v, u)
               THEN Some(g.edges[EdgeId(g, v, u, MinEdge({<<v, u, x>> : x \in KeysBetween(g, v, u)})[3])])
          ELSE None
    IN  IF data = None \/ The(data).state = "absent" THEN "clear" ELSE The(data).state

\* A call of split_edge_at_point as integrate_nodes_into_graph makes it: the
\* edge passed, the state it has in the graph passed, the value returned.
SplitCall(g, u, v, k, r) ==
    [u |-> u, v |-> v, key |-> k,
     state |-> IF has_edge(g, u, v, k) THEN g.edges[EdgeId(g, u, v, k)].state ELSE "none",
     id |-> r.id]

\* (mutant: a point within 50 m of v only is not snapped to v)
IntegrateOne_NoSnapToV(g, gu, pt, ids) ==
    LET e == IF pt.on \in DOMAIN gu.edges THEN pt.on
             ELSE CHOOSE x \in DOMAIN gu.edges : \A y \in DOMAIN gu.edges \ {x} : EdgeLess(x, y)
        u == e[1]
        v == e[2]
        k == e[3]
        blocked == has_edge(g, u, v, k) /\ g.edges[EdgeId(g, u, v, k)].state = "blocked"
        s1 == split_edge_at_point(g, u, v, k, ids[1])
    IN  IF pt.d[u] < 50 THEN [G |-> g, id |-> u, calls |-> <<>>]
        ELSE IF blocked THEN [G |-> g, id |-> IF pt.d[u] < pt.d[v] THEN u ELSE v, calls |-> <<>>]
        ELSE [G |-> s1.G, id |-> IF s1.id # None /\ The(s1.id) # 0 THEN The(s1.id) ELSE u,
              calls |-> <<SplitCall(g, u, v, k, s1)>>]

\* One pass of the loop of integrate_nodes_into_graph, ids being the new
\* node ids of its two calls of split_edge_at_point: the graph after it, the
\* node the point resolves to and the calls of split_edge_at_point made.
IntegrateOne(g, gu, pt, ids) ==
    LET e == nearest_edges(gu, pt)
        u == e[1]
        v == e[2]
        k == e[3]
        state == EffectiveState(g, u, v, k)
        dist_u == pt.d[u]
        dist_v == pt.d[v]
    IN  IF dist_u < 50 THEN [G |-> g, id |-> u, calls |-> <<>>]
        ELSE IF dist_v < 50 THEN [G |-> g, id |-> v, calls |-> <<>>]
        ELSE IF state = "blocked"
             THEN [G |-> g, id |-> IF dist_u < dist_v THEN u ELSE v, calls |-> <<>>]
        ELSE LET s1 == split_edge_at_point(g, u, v, k, ids[1])
                 rev == has_any_edge(s1.G, v, u)
                 rk == MinEdge({<<v, u, x>> : x \in KeysBetween(s1.G, v, u)})[3]
                 s2 == split_edge_at_point(s1.G, v, u, rk, ids[2])
             IN  [G |-> IF rev THEN s2.G ELSE s1.G,
                  id |-> IF s1.id # None /\ The(s1.id) # 0 THEN The(s1.id) ELSE u,
                  calls |-> IF rev THEN <<SplitCall(g, u, v, k, s1), SplitCall(s1.G, v, u, rk, s2)>>
                                   ELSE <<SplitCall(g, u, v, k, s1)>>]

\* integrate_nodes_into_graph(G, nodes), G_undir being G.to_undirected()
\* as taken before the loop: the graph and the snapped node ids.
RECURSIVE IntegrateLoop(_, _, _, _, _)
IntegrateLoop(g, gu, pts, ids, snapped) ==
    IF pts = <<>> THEN [G |-> g, snapped |-> snapped]
    ELSE LET r == IntegrateOne(g, gu, Head(pts), Head(ids))
         IN  IntegrateLoop(r.G, gu, Tail(pts), Tail(ids),
                           Append(snapped, [graph_id |-> r.id, req |-> Head(pts)]))

integrate_nodes_into_graph(g, pts, ids) ==
    IntegrateLoop(g, IF g.directed THEN to_undirected(g) ELSE g, pts, ids, <<>>)

\* deduplicate_nodes.  A node of a request: its place, in metres along a
\* line, its type, and for a survivor its urgency and count.
NodeData(id, pos, type, urgency, count) ==
    [id |-> id, pos |-> pos, type |-> type, urgency |-> urgency, count |-> count]

\* haversine_distance of two nodes.
haversine_distance(a, b) == IF a.pos >= b.pos THEN a.pos - b.pos ELSE b.pos - a.pos

\* The first of unique_nodes less than 10 m from node, 0 if there is none.
FirstClose(unique_nodes, node) ==
    LET S == {i \in 1..Len(unique_nodes) : haversine_distance(node, unique_nodes[i]) < 10}
    IN  IF S = {} THEN 0 ELSE CHOOSE i \in S : \A j \in S : i <= j

\* The loop of deduplicate_nodes: max(None, x) and x + None raise TypeError.
RECURSIVE DedupLoop(_, _)
DedupLoop(nodes, unique_nodes) ==
    IF nodes = <<>> THEN [out |-> unique_nodes, exc |-> ""]
    ELSE LET node == Head(nodes)
             i == FirstClose(unique_nodes, node)
             existing == unique_nodes[i]
             urgency == IF node.urgency # None THEN The(node.urgency) ELSE 0
         IN  IF i = 0 THEN DedupLoop(Tail(nodes), Append(unique_nodes, node))
             ELSE IF existing.urgency = None \/ existing.count = None \/ node.count = None
                  THEN [out |-> <<>>, exc |-> "TypeError"]
             ELSE DedupLoop(Tail(nodes),
                      [unique_nodes EXCEPT
                          ![i].urgency = Some(Max2(The(existing.urgency), urgency)),
                          ![i].count = Some(The(existing.count) + The(node.count))])

deduplicate_nodes(nodes) == DedupLoop(nodes, <<>>)

\* ----------------------------------------------------------------- state
VARIABLES
    store,      \* table graph_cache: a set of rows
    now,        \* what time() returns
    pc,         \* per caller: the statement it is at
    loc,        \* per caller: the local variables of the call it runs
    lastPut,    \* history: the REPLACE executed last (its graph while no other
                \* statement has changed the table since)
    hot         \* history: the keys whose record was, since its download, hit
                \* each time less than ACCESS_TTL_SECONDS after its previous access

vars == <<store, now, pc, loc, lastPut, hot>>

Row(k, blob, dl, la) ==
    [cache_key |-> k, graph_blob |-> blob, download_time |-> dl, last_access |-> la]

RowsOf(st, k) == {r \in st : r.cache_key = k}

\* The locals of a caller that runs nothing.
NoLocals ==
    [fn |-> "none", bbox |-> None, cache_key |-> None, row |-> None, G |-> None,
     save_time |-> 0, cleanup_time |-> 0, ret |-> None, exc |-> "", trace |-> <<>>,
     put_before |-> None, deleted |-> 0, started |-> 0,
     req |-> None, G_cached |-> None, G_viz |-> None, G_routing |-> None, snapped |-> <<>>,
     before |-> None, edges |-> <<>>, split |-> None, new_node_id |-> None,
     nodes |-> <<>>, G_undir |-> None, calls |-> <<>>, nsplit |-> 0, unique_nodes |-> <<>>,
     travel_cost |-> None, survivors |-> <<>>, pickups_ids |-> <<>>, pickup_vec |-> <<>>,
     remaining_survivors |-> <<>>, all_paths |-> <<>>, v_idx |-> 0, assigned |-> <<>>,
     status_code |-> 0, gnn |-> "", probs |-> None, written |-> 0]

NoPut == [key |-> None, G |-> None, by |-> 0, replaced |-> FALSE, fresh |-> FALSE]

Init ==
    /\ store = {}
    /\ now = 0
    /\ pc = [p \in Procs |-> "idle"]
    /\ loc = [p \in Procs |-> NoLocals]
    /\ lastPut = NoPut
    /\ hot = {}

\* ------------------------------------------------------- SQL statements
\* SELECT graph_blob FROM graph_cache WHERE cache_key = ?; fetchone().
Select(st, k) ==
    IF RowsOf(st, k) = {} THEN None ELSE Some(The(RowsOf(st, k)).graph_blob)

\* (mutant: the UPDATE without its WHERE clause)
Update_NoWhere(st, t, k) ==
    {[r EXCEPT !.last_access = t] : r \in st}

\* UPDATE graph_cache SET last_access = ? WHERE cache_key = ?.
Update(st, t, k) ==
    {IF r.cache_key = k THEN [r EXCEPT !.last_access = t] ELSE r : r \in st}

\* (mutant: INSERT OR IGNORE, which keeps the row that holds the key)
Replace_InsertOrIgnore(st, k, blob, t) ==
    IF RowsOf(st, k) # {} THEN st ELSE st \cup {Row(k, blob, t, t)}

\* (mutant: an INSERT into a table without the PRIMARY KEY)
Replace_Insert(st, k, blob, t) ==
    st \cup {Row(k, blob, t, t)}

\* REPLACE INTO graph_cache (...) VALUES (?, ?, ?, ?): cache_key is the
\* PRIMARY KEY, so the row that holds the key is deleted first.
Replace(st, k, blob, t) ==
    (st \ RowsOf(st, k)) \cup {Row(k, blob, t, t)}

\* (mutant: <= in place of <)
Delete_Inclusive(st, access_cutoff, download_cutoff) ==
    {r \in st : ~(r.last_access <= access_cutoff \/ r.download_time <= download_cutoff)}

\* (mutant: the access cutoff alone)
Delete_AccessOnly(st, access_cutoff, download_cutoff) ==
    {r \in st : ~(r.last_access < access_cutoff)}

\* DELETE FROM graph_cache WHERE last_access < ? OR download_time < ?.
Delete(st, access_cutoff, download_cutoff) ==
    {r \in st : ~(r.last_access < access_cutoff \/ r.download_time < download_cutoff)}

\* -------------------------------------------------------------- helpers
InGetGraph(p) == loc[p].fn \in {"get_graph", "infer_routes"}

Goto(p, label) == pc' = [pc EXCEPT ![p] = label]

\* Where a caller goes when get_graph returns.
AfterGetGraph(p) == IF loc[p].fn = "infer_routes" THEN "ir_check" ELSE "done"
\* Where a caller goes when get_graph raises.
AfterGetGraphRaise(p) == IF loc[p].fn = "infer_routes" THEN "ir_except" ELSE "raised"

\* (mutant: a hit falls through to the cleanup)
ReturnCached_Cleanup(p) == "cc_time"

\* get_graph: "if cached is not None: return cached".
ReturnCached(p) == AfterGetGraph(p)

Touched == [lastPut EXCEPT !.fresh = FALSE, !.replaced = FALSE, !.G = None]

\* ------------------------------------------------------------ the clock
Tick(step, max) ==
    /\ now + step <= max * step
    /\ now' = now + step
    /\ UNCHANGED <<store, pc, loc, lastPut, hot>>

\* ----------------------------------------------------- load_from_cache
\* A direct call of load_from_cache(cache_key).
load_from_cache(p, k) ==
    /\ pc[p] = "idle"
    /\ loc' = [loc EXCEPT ![p] = [NoLocals EXCEPT !.fn = "load_from_cache", !.cache_key = Some(k)]]
    /\ Goto(p, "lc_select")
    /\ UNCHANGED <<store, now, lastPut, hot>>

\* SELECT, fetchone, and the return of None when there is no row.
load_from_cache_select(p) ==
    /\ pc[p] = "lc_select"
    /\ LET row == Select(store, The(loc[p].cache_key))
       IN  /\ loc' = [loc EXCEPT ![p].row = row,
                                 ![p].trace = IF InGetGraph(p) THEN @ \o <<"get">> ELSE @,
                                 ![p].put_before =
                                     IF lastPut.fresh /\ lastPut.key = loc[p].cache_key
                                     THEN Some([G |-> The(lastPut.G), replaced |-> lastPut.replaced])
                                     ELSE None]
           /\ Goto(p, IF row # None THEN "lc_update"
                      ELSE IF InGetGraph(p) THEN "gg_download" ELSE "done")
    /\ UNCHANGED <<store, now, lastPut, hot>>

\* UPDATE ... (time(), cache_key), commit, return loads(row[0]); in
\* get_graph the graph is not None and is returned at once.
load_from_cache_update(p) ==
    /\ pc[p] = "lc_update"
    /\ store' = Update(store, now, The(loc[p].cache_key))
    /\ loc' = [loc EXCEPT ![p].ret = Some(loads(The(loc[p].row)))]
    /\ lastPut' = Touched
    /\ hot' = {k \in hot : \A r \in RowsOf(store, k) :
                   k = The(loc[p].cache_key) => now - r.last_access < ACCESS_TTL_SECONDS}
    /\ Goto(p, IF InGetGraph(p) THEN ReturnCached(p) ELSE "done")
    /\ UNCHANGED now

\* ------------------------------------------------------- save_to_cache
\* A direct call of save_to_cache(cache_key, G).
save_to_cache(p, k, g) ==
    /\ pc[p] = "idle"
    /\ loc' = [loc EXCEPT ![p] = [NoLocals EXCEPT !.fn = "save_to_cache", !.cache_key = Some(k), !.G = Some(g)]]
    /\ Goto(p, "sc_time")
    /\ UNCHANGED <<store, now, lastPut, hot>>

\* blob = dumps(G); current_time = time().
save_to_cache_time(p) ==
    /\ pc[p] = "sc_time"
    /\ loc' = [loc EXCEPT ![p].save_time = now]
    /\ Goto(p, "sc_replace")
    /\ UNCHANGED <<store, now, lastPut, hot>>

\* REPLACE INTO ..., commit.
save_to_cache_replace(p) ==
    /\ pc[p] = "sc_replace"
    /\ store' = Replace(store, The(loc[p].cache_key), dumps(The(loc[p].G)), loc[p].save_time)
    /\ lastPut' = [key |-> loc[p].cache_key, G |-> loc[p].G, by |-> p,
                   replaced |-> \E r \in RowsOf(store, The(loc[p].cache_key)) :
                                    r.graph_blob # dumps(The(loc[p].G)),
                   fresh |-> TRUE]
    /\ hot' = hot \cup loc[p].cache_key
    /\ loc' = [loc EXCEPT ![p].trace = IF InGetGraph(p) THEN @ \o <<"put">> ELSE @]
    /\ Goto(p, IF InGetGraph(p) THEN "cc_time" ELSE "done")
    /\ UNCHANGED now

\* ------------------------------------------------------- cleanup_cache
\* A direct call of cleanup_cache().
cleanup_cache(p) ==
    /\ pc[p] = "idle"
    /\ loc' = [loc EXCEPT ![p] = [NoLocals EXCEPT !.fn = "cleanup_cache"]]
    /\ Goto(p, "cc_time")
    /\ UNCHANGED <<store, now, lastPut, hot>>

\* current_time = time(); the two cutoffs follow from it.
cleanup_cache_time(p) ==
    /\ pc[p] = "cc_time"
    /\ loc' = [loc EXCEPT ![p].cleanup_time = now]
    /\ Goto(p, "cc_delete")
    /\ UNCHANGED <<store, now, lastPut, hot>>

\* DELETE ..., commit; get_graph then returns G.
cleanup_cache_delete(p) ==
    /\ pc[p] = "cc_delete"
    /\ store' = Delete(store, loc[p].cleanup_time - ACCESS_TTL_SECONDS,
                              loc[p].cleanup_time - DOWNLOAD_TTL_SECONDS)
    /\ lastPut' = Touched
    /\ hot' = {k \in hot : RowsOf(store', k) # {}}
    /\ loc' = [loc EXCEPT ![p].trace = IF InGetGraph(p) THEN @ \o <<"evict">> ELSE @,
                          ![p].ret = IF InGetGraph(p) THEN loc[p].G ELSE None,
                          ![p].deleted = Cardinality(store \ store')]
    /\ Goto(p, IF InGetGraph(p) THEN AfterGetGraph(p) ELSE "done")
    /\ UNCHANGED now

\* ----------------------------------------------------------- get_graph
\* get_graph(north, south, east, west): init_cache() creates the table if
\* it does not exist and changes no row; cache_key = make_bbox_key(...).
\* t0 is the time the call begins, kept where a specification bounds the
\* duration of a call (0 elsewhere).
get_graph(p, b, t0) ==
    /\ pc[p] = "idle"
    /\ loc' = [loc EXCEPT ![p] = [NoLocals EXCEPT !.fn = "get_graph", !.bbox = Some(b),
                                                  !.cache_key = Some(make_bbox_key(b)),
                                                  !.started = t0]]
    /\ Goto(p, "lc_select")
    /\ UNCHANGED <<store, now, lastPut, hot>>

\* (mutant: a failed download is tried once more)
download_graph_bbox_Retry(p) ==
    /\ pc[p] = "gg_download"
    /\ \/ \E g \in Downloads :
            /\ loc' = [loc EXCEPT ![p].G = Some(g), ![p].trace = @ \o <<"fetcher">>]
            /\ Goto(p, "sc_time")
       \/ /\ loc' = [loc EXCEPT ![p].exc = IF Len(loc[p].trace) >= 2 THEN "NetworkXError" ELSE "",
                                 ![p].trace = @ \o <<"fetcher">>]
          /\ Goto(p, IF Len(loc[p].trace) >= 2 THEN AfterGetGraphRaise(p) ELSE "gg_download")
    /\ UNCHANGED <<store, now, lastPut, hot>>

\* G = download_graph_bbox(...): the source returns a graph, or raises
\* ValueError, which download_graph_bbox turns into NetworkXError and
\* get_graph raises again.
download_graph_bbox(p) ==
    /\ pc[p] = "gg_download"
    /\ \/ \E g \in Downloads :
            /\ loc' = [loc EXCEPT ![p].G = Some(g), ![p].trace = @ \o <<"fetcher">>]
            /\ Goto(p, "sc_time")
       \/ /\ loc' = [loc EXCEPT ![p].exc = "NetworkXError", ![p].trace = @ \o <<"fetcher">>]
          /\ Goto(p, AfterGetGraphRaise(p))
    /\ UNCHANGED <<store, now, lastPut, hot>>

\* ---------------------------------------------------------- infer_routes
\* The requests of /api/infer-routes: a bounding box, edge modifications and
\* nodes.  A node is a NodeData with, for integrate_nodes_into_graph, the
\* edge its coordinates lie nearest to and its distances to the graph's nodes.
Mod(u, v, k, state) == [u |-> u, v |-> v, key |-> k, state |-> state]
Request(b, mods, nodes) == [bbox |-> b, modified_edges |-> mods, nodes |-> nodes]
RoutePoint(id, type, urgency, count, pos, on, d) ==
    [id |-> id, pos |-> pos, type |-> type, urgency |-> urgency, count |-> count,
     on |-> on, d |-> [n \in {1, 2, 3} |-> d[n]]]
\* Two requests that name survivors only.
Requests ==
    {Request(Box(Flt(FALSE, 1)), <<Mod(1, 2, 0, "blocked")>>,
             <<RoutePoint("s1", "survivor", Some(5), Some(1), 300, <<2, 3, 0>>, <<500, 200, 200>>)>>),
     Request(Box(Flt(FALSE, 1)), <<Mod(3, 2, 0, "partial")>>,
             <<RoutePoint("s1", "survivor", Some(1), Some(10), 100, <<1, 2, 0>>, <<100, 100, 400>>)>>)}
\* The node ids that split_edge_at_point's hash comes to: per node of the
\* request, for the split and the split of the reverse edge.
SplitIds == {<<<<-1, -2>>, <<-3, -4>>, <<-5, -6>>>>}

\* infer_routes(req): its first statement is the call of get_graph.
infer_routes(p, r, t0) ==
    /\ pc[p] = "idle"
    /\ loc' = [loc EXCEPT ![p] = [NoLocals EXCEPT !.fn = "infer_routes", !.req = Some(r),
                                                  !.bbox = Some(r.bbox),
                                                  !.cache_key = Some(make_bbox_key(r.bbox)),
                                                  !.started = t0]]
    /\ Goto(p, "lc_select")
    /\ UNCHANGED <<store, now, lastPut, hot>>

\* G_cached = get_graph(...) has returned, and its locals are gone.  A graph
\* without nodes is falsy: "Graph not found".  clean_nodes =
\* deduplicate_nodes(req.nodes), whose TypeError goes to the except clause;
\* G_viz = G_cached.copy(); G_routing = G_cached.copy().to_undirected().
ir_copy(p) ==
    /\ pc[p] = "ir_check"
    /\ LET frame == [NoLocals EXCEPT
                   !.fn = "infer_routes", !.req = loc[p].req, !.bbox = loc[p].bbox,
                   !.cache_key = loc[p].cache_key, !.started = loc[p].started,
                   !.G_cached = loc[p].ret]
           clean_nodes == deduplicate_nodes(The(loc[p].req).nodes)
       IN  IF The(loc[p].ret).nodes = {}
           THEN /\ loc' = [loc EXCEPT ![p] = [frame EXCEPT !.status_code = 500]]
                /\ Goto(p, "done")
           ELSE IF clean_nodes.exc # ""
           THEN /\ loc' = [loc EXCEPT ![p] = [frame EXCEPT !.exc = clean_nodes.exc]]
                /\ Goto(p, "ir_except")
           ELSE /\ loc' = [loc EXCEPT ![p] = [frame EXCEPT
                               !.unique_nodes = clean_nodes.out,
                               !.G_viz = Some(copy(The(loc[p].ret))),
                               !.G_routing = Some(to_undirected(copy(The(loc[p].ret))))]]
                /\ Goto(p, "ir_edit")
    /\ UNCHANGED <<store, now, lastPut, hot>>

\* (mutant: the edited graph is written back to the cache)
ir_edit_WriteBack(p) ==
    /\ pc[p] = "ir_edit"
    /\ loc' = [loc EXCEPT
           ![p].G_viz = Some(edit_edges(The(@), The(loc[p].req).modified_edges)),
           ![p].G_routing = Some(edit_edges(The(@), The(loc[p].req).modified_edges))]
    /\ store' = Replace(store, The(loc[p].cache_key),
                        dumps(edit_edges(The(loc[p].G_viz), The(loc[p].req).modified_edges)), now)
    /\ Goto(p, "ir_integrate")
    /\ UNCHANGED <<now, lastPut, hot>>

\* G_viz = edit_edges(G_viz, req.modified_edges), and the same for G_routing.
ir_edit(p) ==
    /\ pc[p] = "ir_edit"
    /\ loc' = [loc EXCEPT
           ![p].G_viz = Some(edit_edges(The(@), The(loc[p].req).modified_edges)),
           ![p].G_routing = Some(edit_edges(The(@), The(loc[p].req).modified_edges))]
    /\ Goto(p, "ir_integrate")
    /\ UNCHANGED <<store, now, lastPut, hot>>

\* G_viz, _ = integrate_nodes_into_graph(G_viz, clean_nodes) and
\* G_routing, snapped_data = integrate_nodes_into_graph(G_routing, clean_nodes),
\* the node ids of the splits being ids_viz and ids_routing.
ir_integrate(p, ids_viz, ids_routing) ==
    /\ pc[p] = "ir_integrate"
    /\ LET nodes == loc[p].unique_nodes
           viz == integrate_nodes_into_graph(The(loc[p].G_viz), nodes, ids_viz)
           routing == integrate_nodes_into_graph(The(loc[p].G_routing), nodes, ids_routing)
       IN  loc' = [loc EXCEPT ![p].G_viz = Some(viz.G), ![p].G_routing = Some(routing.G),
                              ![p].snapped = routing.snapped]
    /\ Goto(p, "ir_cost")
    /\ UNCHANGED <<store, now, lastPut, hot>>

\* except Exception: whatever was raised in the try block, the error of
\* get_graph and the HTTPException of the handler itself included, becomes
\* a response with status 500.
ir_except(p) ==
    /\ pc[p] = "ir_except"
    /\ loc' = [loc EXCEPT ![p].status_code = 500]
    /\ Goto(p, "done")
    /\ UNCHANGED <<store, now, lastPut, hot>>

RouteStep(p) ==
    \/ ir_copy(p)
    \/ ir_edit(p)
    \/ \E ids_viz, ids_routing \in SplitIds : ir_integrate(p, ids_viz, ids_routing)
    \/ ir_except(p)

\* The caller takes the result; its locals are gone.
Return(p) ==
    /\ pc[p] \in {"done", "raised"}
    /\ loc' = [loc EXCEPT ![p] = NoLocals]
    /\ Goto(p, "idle")
    /\ UNCHANGED <<store, now, lastPut, hot>>

\* The statements of the cache functions, whoever called them.
CacheStep(p) ==
    \/ load_from_cache_select(p)
    \/ load_from_cache_update(p)
    \/ save_to_cache_time(p)
    \/ save_to_cache_replace(p)
    \/ cleanup_cache_time(p)
    \/ cleanup_cache_delete(p)
    \/ download_graph_bbox(p)
    \/ Return(p)

\* One caller at a time: the cache functions called directly, and get_graph.
Next ==
    \/ Tick(ClockStep, MaxClock)
    \/ \E k \in Keys : load_from_cache(1, k)
    \/ \E k \in Keys, g \in Downloads : save_to_cache(1, k, g)
    \/ cleanup_cache(1)
    \/ \E b \in BBoxes : get_graph(1, b, 0)
    \/ CacheStep(1)

Spec == Init /\ [][Next]_vars

\* Bursts of hits: one caller of get_graph, and a clock fine enough for
\* several accesses within ACCESS_TTL_SECONDS.
NextBurst ==
    \/ Tick(BurstStep, MaxClockBurst)
    \/ \E b \in BBoxes : get_graph(1, b, 0)
    \/ CacheStep(1)

SpecBurst == Init /\ [][NextBurst]_vars

\* ================================================================ claims
Returned(p) == pc[p] = "done"
Hit(p) == loc[p].row # None
KeyOf(p) == The(loc[p].cache_key)

\* C1: two bounding boxes whose four fields round to the same 5-decimal
\* values get the same key from make_bbox_key, so a get_graph for the
\* second finds the record stored for the first: a get_graph that has just
\* missed leaves no record stored under a box that rounds to its own.
C1_SameRoundedSameKey ==
    \A p \in Procs : \A b1 \in BBoxes :
        (loc[p].fn = "get_graph" /\ pc[p] = "gg_download"
            /\ SameRounded(b1, The(loc[p].bbox))) =>
                RowsOf(store, make_bbox_key(b1)) = {}

\* C2: a load_from_cache(key) that runs right after save_to_cache(key, G),
\* no other statement having changed the table in between, finds the row
\* and returns a graph equal to G, also when the REPLACE overwrote a row
\* that held another graph.
C2_GetAfterPut ==
    \A p \in Procs :
        loc[p].put_before # None =>
            /\ pc[p] # "lc_select" => Hit(p)
            /\ Returned(p) => loc[p].ret = Some(The(loc[p].put_before).G)

C2_Witness ==
    \E p \in Procs :
        /\ Returned(p) /\ loc[p].fn = "load_from_cache"
        /\ loc[p].put_before # None /\ The(loc[p].put_before).replaced
        /\ loc[p].ret = Some(GraphB)

\* C3: after the DELETE of cleanup_cache, run with current_time = t, no row
\* has t - last_access > 24 h or t - download_time > 7 days, and every row
\* within both limits is still there, unchanged; nothing else is in the
\* table.
Expired(r, t) ==
    \/ t - r.last_access > 24 * 3600
    \/ t - r.download_time > 7 * 24 * 3600

C3_EvictExpired ==
    [][\A p \in Procs :
          (pc[p] = "cc_delete" /\ pc'[p] # "cc_delete") =>
              /\ \A r \in store' : ~Expired(r, loc[p].cleanup_time)
              /\ \A r \in store : ~Expired(r, loc[p].cleanup_time) => r \in store'
              /\ store' \subseteq store]_vars

\* An eviction has deleted a row and kept one whose last access is exactly
\* 24 h old.
C3_Witness ==
    \E p \in Procs :
        /\ Returned(p) /\ loc[p].fn = "cleanup_cache" /\ loc[p].deleted > 0
        /\ \E r \in store : loc[p].cleanup_time - r.last_access = 24 * 3600

\* C4: load_from_cache(key) on a present row changes only that row's
\* last_access, which becomes the current time: its graph_blob, its
\* download_time and every other row stay; on an absent key it returns None
\* and the table is unchanged.
C4_GetFrame ==
    [][\A p \in Procs :
          /\ (pc[p] = "lc_select" /\ pc'[p] # "lc_select") =>
                 /\ store' = store
                 /\ RowsOf(store, KeyOf(p)) = {} =>
                        pc'[p] # "lc_update" /\ loc'[p].ret = None
          /\ (pc[p] = "lc_update" /\ pc'[p] # "lc_update") =>
                 store' = {IF r.cache_key = KeyOf(p)
                             THEN Row(r.cache_key, r.graph_blob, r.download_time, now)
                             ELSE r : r \in store}]_vars

\* A hit has moved last_access of its row past download_time, while a row
\* of another key kept an older last_access.
C4_Witness ==
    \E p \in Procs :
        /\ Returned(p) /\ loc[p].fn = "load_from_cache" /\ Hit(p)
        /\ \E r \in RowsOf(store, KeyOf(p)) : r.last_access = now /\ r.download_time < now
        /\ \E r \in store : r.cache_key # KeyOf(p) /\ r.last_access < now

\* C5: in every reachable state the table holds at most one row per key and
\* every row has download_time <= last_access; right after a REPLACE the
\* row it wrote has download_time = last_access.
C5_StoreInvariant ==
    /\ \A r1, r2 \in store : r1.cache_key = r2.cache_key => r1 = r2
    /\ \A r \in store : r.download_time <= r.last_access
    /\ lastPut.fresh =>
           /\ RowsOf(store, The(lastPut.key)) # {}
           /\ \A r \in RowsOf(store, The(lastPut.key)) : r.download_time = r.last_access

C5_Witness ==
    /\ lastPut.fresh /\ lastPut.replaced
    /\ \E r \in store : r.download_time < r.last_access

\* C6: a get_graph that finds a row for its key neither calls the download
\* nor runs cleanup_cache, deletes no row and returns the graph of the row
\* it read; one that finds none calls the download, then save_to_cache,
\* then cleanup_cache, in this order, and returns the downloaded graph.
IsPrefix(s, t) == Len(s) <= Len(t) /\ \A i \in 1 .. Len(s) : s[i] = t[i]
MissOrder == <<"get", "fetcher", "put", "evict">>

C6_HitMissOrder ==
    \A p \in Procs :
        loc[p].fn = "get_graph" =>
            /\ Hit(p) =>
                   /\ loc[p].trace = <<"get">> /\ loc[p].deleted = 0
                   /\ Returned(p) => loc[p].ret = Some(loads(The(loc[p].row)))
            /\ ~Hit(p) =>
                   /\ IsPrefix(loc[p].trace, MissOrder)
                   /\ Returned(p) => loc[p].trace = MissOrder /\ loc[p].ret = loc[p].G
                                       /\ loc[p].G # None

\* A miss has returned the downloaded graph after an eviction that deleted a
\* row.
C6_Witness ==
    \E p \in Procs :
        /\ Returned(p) /\ loc[p].fn = "get_graph" /\ ~Hit(p)
        /\ loc[p].ret = Some(GraphB) /\ loc[p].deleted > 0

\* C8: when the download fails, get_graph raises NetworkXError to its
\* caller after one call of the download, stores no row for the key, runs no
\* cleanup_cache and leaves every row as it was.
C8_FetcherFails ==
    /\ [](\A p \in Procs :
             pc[p] = "raised" =>
                 /\ loc[p].exc = "NetworkXError" /\ loc[p].ret = None
                 /\ loc[p].trace = <<"get", "fetcher">>
                 /\ RowsOf(store, KeyOf(p)) = {})
    /\ [][\A p \in Procs :
             (pc[p] = "gg_download" /\ pc'[p] = "raised") => store' = store]_vars

\* A get_graph has raised while the table holds a row of another key.
C8_Witness ==
    \E p \in Procs : pc[p] = "raised" /\ store # {}

\* C7 (as claimed): a record that keeps being hit by get_graph, each hit
\* less than 24 h after the previous access, is never deleted by a
\* cleanup_cache run, the runs that misses on other keys trigger included.
InBurst(r, t) ==
    /\ r.cache_key \in hot
    /\ r.last_access > r.download_time
    /\ t - r.last_access < 24 * 3600

C7_HotNeverEvicted ==
    [][\A p \in Procs :
          (pc[p] = "cc_delete" /\ pc'[p] # "cc_delete") =>
              \A r \in store : InBurst(r, loc[p].cleanup_time) => r \in store']_vars

\* C7 (amended): a cleanup_cache run keeps such a record as long as its
\* download is at most 7 days old, and deletes it, in the middle of the
\* burst, once the download is older.
C7_HotEvictedByDownloadAge ==
    [][\A p \in Procs :
          (pc[p] = "cc_delete" /\ pc'[p] # "cc_delete") =>
              \A r \in store : InBurst(r, loc[p].cleanup_time) =>
                  (r \in store' <=> loc[p].cleanup_time - r.download_time <= 7 * 24 * 3600)]_vars

\* The cleanup of a miss has kept the record of another key that is in a
\* burst of hits and was downloaded 7 days before.
C7_Witness ==
    \E p \in Procs :
        /\ Returned(p) /\ loc[p].fn = "get_graph" /\ ~Hit(p)
        /\ \E r \in store :
              /\ r.cache_key # KeyOf(p) /\ InBurst(r, loc[p].cleanup_time)
              /\ loc[p].cleanup_time - r.download_time = 7 * 24 * 3600

\* ------------------------------------------------------------ mutators
\* The mutators of utils.py applied to a graph copy: edit_edges, then
\* split_edge_at_point or integrate_nodes_into_graph; and deduplicate_nodes
\* applied to the nodes of a request.

\* A network with a parallel edge from 1 to 2 and a one-way street from 3
\* to 2.
GraphC == Graph(TRUE, {1, 2, 3},
                [e \in {<<1, 2, 0>>, <<1, 2, 1>>, <<2, 1, 0>>, <<3, 2, 0>>} |-> Attr("absent")])
Networks == {GraphA, GraphC}

States == {"blocked", "partial"}
Keys01 == {0, 1}
Mods == {Mod(u, v, k, st) : u \in {1, 2, 3}, v \in {1, 2, 3}, k \in Keys01, st \in States}
ModLists == {<<m>> : m \in {x \in Mods : x.u # x.v}}
              \cup {<<m1, m2>> : m1 \in {x \in Mods : x.u # x.v /\ x.state = "blocked"},
                                  m2 \in {x \in Mods : x.u # x.v /\ x.state = "partial"}}

\* The values hash(...) % 10000000 * -1 can come to: 0 and negative numbers.
HashIds == {0, -1, -2}
MaxSplits == 2
MaxNodes == 2
MaxRequestNodes == 3

\* The points nearest to edge e: within 50 m of u, of v only, of neither with
\* u nearer, of neither with v nearer.
PointsOn(e) ==
    {Point(e, [n \in {1, 2, 3} |-> IF n = e[1] THEN d[1] ELSE IF n = e[2] THEN d[2] ELSE 500]) :
        d \in {<<20, 60>>, <<60, 20>>, <<60, 90>>, <<90, 60>>}}

SeqsUpTo(S, n) == UNION {[1..m -> S] : m \in 1..n}

\* The caller gets a graph: a copy of the cached MultiDiGraph (G_viz) or its
\* undirected form (G_routing).
take_graph(p, g) ==
    /\ pc[p] = "idle"
    /\ loc' = [loc EXCEPT ![p] = [NoLocals EXCEPT !.fn = "mutators", !.G_viz = Some(g)]]
    /\ Goto(p, "copied")
    /\ UNCHANGED <<store, now, lastPut, hot>>

\* G = edit_edges(G, edges).
do_edit_edges(p, edges) ==
    /\ pc[p] = "copied"
    /\ loc' = [loc EXCEPT ![p].before = loc[p].G_viz, ![p].edges = edges,
                          ![p].G_viz = Some(edit_edges(The(loc[p].G_viz), edges))]
    /\ Goto(p, "edited")
    /\ UNCHANGED <<store, now, lastPut, hot>>

\* new_id = split_edge_at_point(G, u, v, key, point).
do_split_edge_at_point(p, u, v, key, new_node_id) ==
    /\ pc[p] \in {"copied", "edited", "split"}
    /\ loc[p].nsplit < MaxSplits
    /\ LET r == split_edge_at_point(The(loc[p].G_viz), u, v, key, new_node_id)
       IN  loc' = [loc EXCEPT ![p].before = loc[p].G_viz, ![p].edges = <<>>,
                              ![p].split = Some([u |-> u, v |-> v, key |-> key]),
                              ![p].G_viz = Some(r.G), ![p].new_node_id = r.id,
                              ![p].nsplit = @ + 1]
    /\ Goto(p, "split")
    /\ UNCHANGED <<store, now, lastPut, hot>>

\* integrate_nodes_into_graph(G, nodes) is entered: snapped_nodes = [] and
\* G_undir = G.to_undirected().
do_integrate_nodes_into_graph(p, nodes) ==
    /\ pc[p] \in {"copied", "edited"}
    /\ LET g == The(loc[p].G_viz)
           gu == IF g.directed THEN to_undirected(g) ELSE g
       IN  /\ \A i \in 1..Len(nodes) : nodes[i].on \in DOMAIN gu.edges
           /\ loc' = [loc EXCEPT ![p].before = None, ![p].edges = <<>>, ![p].nodes = nodes,
                                  ![p].G_undir = Some(gu), ![p].snapped = <<>>]
    /\ Goto(p, "in_loop")
    /\ UNCHANGED <<store, now, lastPut, hot>>

\* (mutant: the entry of a node that resolves to a graph node already in
\* snapped_nodes takes the place of the earlier entry)
integrate_loop_OnePerGraphNode(p, ids) ==
    /\ pc[p] = "in_loop"
    /\ LET node_req == loc[p].nodes[Len(loc[p].snapped) + 1]
           r == IntegrateOne(The(loc[p].G_viz), The(loc[p].G_undir), node_req, ids)
           entry == [graph_id |-> r.id, req |-> node_req]
           seen == {i \in 1..Len(loc[p].snapped) : loc[p].snapped[i].graph_id = r.id}
       IN  /\ loc' = [loc EXCEPT ![p].before = loc[p].G_viz, ![p].G_viz = Some(r.G),
                                  ![p].calls = r.calls,
                                  ![p].snapped = IF seen = {}
                                                 THEN Append(@, entry)
                                                 ELSE [i \in 1..Len(@) |-> IF i \in seen THEN entry ELSE @[i]]]
           /\ Goto(p, IF Len(loc[p].snapped) + 1 = Len(loc[p].nodes) \/ seen # {}
                      THEN "integrated" ELSE "in_loop")
    /\ UNCHANGED <<store, now, lastPut, hot>>

\* One pass of its loop, for the next node of the list; after the last the
\* function returns G and snapped_nodes.
integrate_loop(p, ids) ==
    /\ pc[p] = "in_loop"
    /\ LET node_req == loc[p].nodes[Len(loc[p].snapped) + 1]
           r == IntegrateOne(The(loc[p].G_viz), The(loc[p].G_undir), node_req, ids)
       IN  /\ loc' = [loc EXCEPT ![p].before = loc[p].G_viz, ![p].G_viz = Some(r.G),
                                  ![p].calls = r.calls,
                                  ![p].snapped = Append(@, [graph_id |-> r.id, req |-> node_req])]
           /\ Goto(p, IF Len(loc[p].snapped) + 1 = Len(loc[p].nodes) THEN "integrated" ELSE "in_loop")
    /\ UNCHANGED <<store, now, lastPut, hot>>

\* clean_nodes = deduplicate_nodes(req.nodes).
do_deduplicate_nodes(p, nodes) ==
    /\ pc[p] = "idle"
    /\ LET r == deduplicate_nodes(nodes)
       IN  loc' = [loc EXCEPT ![p] = [NoLocals EXCEPT !.fn = "deduplicate_nodes", !.nodes = nodes,
                                                      !.unique_nodes = r.out, !.exc = r.exc]]
    /\ Goto(p, "deduplicated")
    /\ UNCHANGED <<store, now, lastPut, hot>>

\* The caller is done with what it got.
Drop(p) ==
    /\ pc[p] \in {"edited", "split", "integrated", "deduplicated"}
    /\ loc' = [loc EXCEPT ![p] = NoLocals]
    /\ Goto(p, "idle")
    /\ UNCHANGED <<store, now, lastPut, hot>>

\* The nodes of requests: survivors and pickups 0, 7, 14 and 30 m along a line.
Places == {0, 7, 14, 30}
RequestNodes ==
    {NodeData(1, x, "survivor", Some(u), Some(c)) : x \in Places, u \in {1, 3}, c \in {1, 2}}
        \cup {NodeData(2, x, "pickup", None, None) : x \in Places}

NextGraph ==
    \/ \E g \in Networks : take_graph(1, g) \/ take_graph(1, to_undirected(g))
    \/ \E edges \in ModLists : do_edit_edges(1, edges)
    \/ \E u, v \in {1, 2, 3}, key \in Keys01, id \in HashIds :
          do_split_edge_at_point(1, u, v, key, id)
    \/ \E e \in {<<1, 2, 0>>, <<1, 2, 1>>, <<2, 3, 0>>} :
          \E nodes \in SeqsUpTo(PointsOn(e) \cup PointsOn(<<1, 2, 0>>), MaxNodes) :
              do_integrate_nodes_into_graph(1, nodes)
    \/ \E ids \in HashIds \X HashIds : integrate_loop(1, ids)
    \/ \E nodes \in SeqsUpTo(RequestNodes, MaxRequestNodes) : do_deduplicate_nodes(1, nodes)
    \/ Drop(1)

SpecGraph == Init /\ [][NextGraph]_vars

\* The same mutators with the modifications a request can carry:
\* EdgeModification.state is a str, so any string passes validation.
RequestStates == {"partial", "blocked", "flooded"}
RequestMods == {Mod(u, v, 0, st) : u \in {1, 2, 3}, v \in {1, 2, 3}, st \in RequestStates}

NextStates ==
    \/ take_graph(1, GraphA) \/ take_graph(1, to_undirected(GraphA))
    \/ \E m \in {x \in RequestMods : x.u # x.v} : do_edit_edges(1, <<m>>)
    \/ \E u, v \in {1, 2, 3}, id \in {-1, -2} : do_split_edge_at_point(1, u, v, 0, id)
    \/ \E nodes \in SeqsUpTo(PointsOn(<<1, 2, 0>>) \cup PointsOn(<<2, 3, 0>>), 1) :
          do_integrate_nodes_into_graph(1, nodes)
    \/ integrate_loop(1, <<-1, -2>>)
    \/ Drop(1)

SpecStates == Init /\ [][NextStates]_vars

\* --------------------------------------------------------------- dispatch
\* python_router.solve_routes(G, survivors, pickups_ids), travel_cost being
\* the attribute of that name of the edges of G.

\* The nodes one edge away from u.
Neighbors(g, u) == {v \in g.nodes \ {u} : has_any_edge(g, u, v)}

\* The weight networkx gives a step from u to v: the least travel_cost of
\* the parallel edges.
Weight(g, travel_cost, u, v) ==
    LET W == {travel_cost[EdgeId(g, u, v, k)] : k \in KeysBetween(g, u, v)}
    IN  CHOOSE w \in W : \A x \in W : w <= x

\* The simple paths from a to b.
RECURSIVE PathsFrom(_, _, _, _)
PathsFrom(g, a, b, visited) ==
    IF a = b THEN {<<a>>}
    ELSE UNION {{<<a>> \o q : q \in PathsFrom(g, n, b, visited \cup {n})} :
                    n \in Neighbors(g, a) \ visited}

RECURSIVE PathCost(_, _, _)
PathCost(g, travel_cost, path) ==
    IF Len(path) <= 1 THEN 0
    ELSE Weight(g, travel_cost, path[1], path[2]) + PathCost(g, travel_cost, Tail(path))

\* NetworkXNoPath is raised when there is none.
HasPath(g, a, b) == PathsFrom(g, a, b, {a}) # {}

\* shortest_path_length(G, a, b, weight='travel_cost').
shortest_path_length(g, travel_cost, a, b) ==
    LET C == {PathCost(g, travel_cost, q) : q \in PathsFrom(g, a, b, {a})}
    IN  CHOOSE c \in C : \A x \in C : c <= x

\* What shortest_path(G, a, b, weight='travel_cost') can return.
shortest_path(g, travel_cost, a, b) ==
    {q \in PathsFrom(g, a, b, {a}) :
        PathCost(g, travel_cost, q) = shortest_path_length(g, travel_cost, a, b)}

Vehicle(i, pid) == [id |-> i, current_node |-> pid, path |-> <<pid>>, total_distance |-> 0]
Survivor(graph_id, urgency, count) == [graph_id |-> graph_id, urgency |-> urgency, count |-> count]

\* (mutant: the urgency is not squared)
Denominator_Linear(survivor) == survivor.urgency + survivor.count

\* (urgency**2) + count.
Denominator(survivor) == (survivor.urgency * survivor.urgency) + survivor.count

\* (mutant: the scan stops after the first vehicle)
Scored_FirstVehicle(g, travel_cost, pickup_vec, remaining_survivors) ==
    {c \in {1} \X (1..Len(remaining_survivors)) :
        /\ pickup_vec # <<>>
        /\ pickup_vec[c[1]].current_node # remaining_survivors[c[2]].graph_id
        /\ HasPath(g, pickup_vec[c[1]].current_node, remaining_survivors[c[2]].graph_id)}

\* The (vehicle, survivor) pairs of one scan for which a score is computed.
Scored(g, travel_cost, pickup_vec, remaining_survivors) ==
    {c \in (1..Len(pickup_vec)) \X (1..Len(remaining_survivors)) :
        /\ pickup_vec[c[1]].current_node # remaining_survivors[c[2]].graph_id
        /\ HasPath(g, pickup_vec[c[1]].current_node, remaining_survivors[c[2]].graph_id)}

\* arrival_time of a pair.
ArrivalTime(g, travel_cost, pickup_vec, remaining_survivors, c) ==
    pickup_vec[c[1]].total_distance
        + shortest_path_length(g, travel_cost, pickup_vec[c[1]].current_node,
                               remaining_survivors[c[2]].graph_id)

\* score of pair c < score of pair d, both denominators being positive.
ScoreLess(g, travel_cost, pickup_vec, remaining_survivors, c, d) ==
    ArrivalTime(g, travel_cost, pickup_vec, remaining_survivors, c) * Denominator(remaining_survivors[d[2]])
        < ArrivalTime(g, travel_cost, pickup_vec, remaining_survivors, d) * Denominator(remaining_survivors[c[2]])

\* c comes before d in the scan: vehicles outside, survivors inside.
ScannedBefore(c, d) == c[1] < d[1] \/ (c[1] = d[1] /\ c[2] < d[2])

\* (mutant: "<=" in place of "<", the last of the pairs with the least score)
Best_LastOfTies(g, travel_cost, pickup_vec, remaining_survivors) ==
    LET S == Scored(g, travel_cost, pickup_vec, remaining_survivors)
    IN  CHOOSE c \in S : \A d \in S \ {c} :
            \/ ScoreLess(g, travel_cost, pickup_vec, remaining_survivors, c, d)
            \/ /\ ~ScoreLess(g, travel_cost, pickup_vec, remaining_survivors, d, c)
               /\ ScannedBefore(d, c)

\* The pair the scan ends with: "if score < best_global_score" keeps the
\* first of the pairs with the least score.
Best(g, travel_cost, pickup_vec, remaining_survivors) ==
    LET S == Scored(g, travel_cost, pickup_vec, remaining_survivors)
    IN  CHOOSE c \in S : \A d \in S \ {c} :
            \/ ScoreLess(g, travel_cost, pickup_vec, remaining_survivors, c, d)
            \/ /\ ~ScoreLess(g, travel_cost, pickup_vec, remaining_survivors, d, c)
               /\ ScannedBefore(c, d)

\* (mutant: the survivor stays in the list)
Pop_Keep(seq, i) == seq

\* remaining_survivors.pop(i).
Pop(seq, i) == [j \in 1..(Len(seq) - 1) |-> IF j < i THEN seq[j] ELSE seq[j + 1]]

\* (mutant: the loop also ends when some pair has no path)
LoopEnds_AtNoPath(g, travel_cost, pickup_vec, remaining_survivors) ==
    \/ remaining_survivors = <<>>
    \/ Scored(g, travel_cost, pickup_vec, remaining_survivors) = {}
    \/ \E i \in 1..Len(pickup_vec), j \in 1..Len(remaining_survivors) :
          ~HasPath(g, pickup_vec[i].current_node, remaining_survivors[j].graph_id)

\* "while remaining_survivors" is left: no survivor remains, or
\* best_vehicle_idx == -1 after the scan.
LoopEnds(g, travel_cost, pickup_vec, remaining_survivors) ==
    \/ remaining_survivors = <<>>
    \/ Scored(g, travel_cost, pickup_vec, remaining_survivors) = {}

\* (mutant: the whole path_segment is appended)
Advance_WholeSegment(vehicle, graph_id, path_segment, best_segment_dist) ==
    [id |-> vehicle.id, current_node |-> graph_id,
     path |-> vehicle.path \o path_segment,
     total_distance |-> vehicle.total_distance + best_segment_dist]

\* The winner after lines 109-114: path.extend(path_segment[1:]),
\* current_node and total_distance.
Advance(vehicle, graph_id, path_segment, best_segment_dist) ==
    [id |-> vehicle.id, current_node |-> graph_id,
     path |-> IF Len(path_segment) > 1 THEN vehicle.path \o Tail(path_segment) ELSE vehicle.path,
     total_distance |-> vehicle.total_distance + best_segment_dist]

\* (mutant: no vehicle is skipped)
Unused_Never(vehicle) == FALSE

\* "if len(vehicle['path']) <= 1: continue".
Unused(vehicle) == Len(vehicle.path) <= 1

\* The locals of solve_routes when its loop is entered.
EnterSolveRoutes(l, g, travel_cost, survivors, pickups_ids) ==
    [l EXCEPT !.G_routing = Some(g), !.travel_cost = Some(travel_cost),
              !.survivors = survivors, !.pickups_ids = pickups_ids,
              !.pickup_vec = [i \in 1..Len(pickups_ids) |-> Vehicle(i - 1, pickups_ids[i])],
              !.remaining_survivors = survivors, !.all_paths = <<>>, !.v_idx = 0,
              !.assigned = <<>>]

solve_routes(p, g, travel_cost, survivors, pickups_ids) ==
    /\ pc[p] = "idle"
    /\ loc' = [loc EXCEPT ![p] = EnterSolveRoutes([NoLocals EXCEPT !.fn = "solve_routes"],
                                                  g, travel_cost, survivors, pickups_ids)]
    /\ Goto(p, "sr_loop")
    /\ UNCHANGED <<store, now, lastPut, hot>>

\* One pass of "while remaining_survivors": the scan of all pairs, which
\* raises ZeroDivisionError at a pair whose (urgency**2) + count is 0, then
\* the break or the assignment, path_segment being what shortest_path returns.
sr_loop(p) ==
    /\ pc[p] = "sr_loop"
    /\ LET g == The(loc[p].G_routing)
           tc == The(loc[p].travel_cost)
           vec == loc[p].pickup_vec
           rem == loc[p].remaining_survivors
           S == Scored(g, tc, vec, rem)
       IN  IF LoopEnds(g, tc, vec, rem)
           THEN /\ Goto(p, "sr_return")
                /\ loc' = [loc EXCEPT ![p].v_idx = 1]
           ELSE IF \E c \in S : Denominator(rem[c[2]]) = 0
           THEN /\ Goto(p, IF loc[p].fn = "infer_routes" THEN "ir_except" ELSE "raised")
                /\ loc' = [loc EXCEPT ![p].exc = "ZeroDivisionError"]
           ELSE LET b == Best(g, tc, vec, rem)
                    winner_vehicle == vec[b[1]]
                    target_survivor == rem[b[2]]
                    best_segment_dist == shortest_path_length(g, tc, winner_vehicle.current_node,
                                                              target_survivor.graph_id)
                IN  \E path_segment \in shortest_path(g, tc, winner_vehicle.current_node,
                                                       target_survivor.graph_id) :
                        /\ loc' = [loc EXCEPT
                               ![p].pickup_vec[b[1]] =
                                   Advance(winner_vehicle, target_survivor.graph_id,
                                           path_segment, best_segment_dist),
                               ![p].remaining_survivors = Pop(rem, b[2]),
                               ![p].assigned = Append(@, [vehicle |-> b[1], survivor |-> target_survivor])]
                        /\ Goto(p, "sr_loop")
    /\ UNCHANGED <<store, now, lastPut, hot>>

\* The pickups a vehicle can return to.
Returnable(g, pickups_ids, node) == {i \in 1..Len(pickups_ids) : HasPath(g, node, pickups_ids[i])}

\* (mutant: the first pickup that can be reached)
BestReturn_First(g, travel_cost, pickups_ids, node) ==
    LET R == Returnable(g, pickups_ids, node)
    IN  CHOOSE i \in R : \A j \in R : i <= j

\* The pickup the loop over pickups_ids ends with: "if d < best_return_dist"
\* keeps the first of the nearest.
BestReturn(g, travel_cost, pickups_ids, node) ==
    LET R == Returnable(g, pickups_ids, node)
        d(i) == shortest_path_length(g, travel_cost, node, pickups_ids[i])
    IN  CHOOSE i \in R : \A j \in R \ {i} : d(i) < d(j) \/ (d(i) = d(j) /\ i < j)

\* One pass of "for vehicle in pickup_vec"; after the last, return all_paths.
sr_return(p) ==
    /\ pc[p] = "sr_return"
    /\ LET g == The(loc[p].G_routing)
           tc == The(loc[p].travel_cost)
           i == loc[p].v_idx
           next == IF i >= Len(loc[p].pickup_vec)
                   THEN (IF loc[p].fn = "infer_routes" THEN "ir_response" ELSE "done")
                   ELSE "sr_return"
       IN  IF i > Len(loc[p].pickup_vec) \/ Unused(loc[p].pickup_vec[i])
           THEN /\ loc' = [loc EXCEPT ![p].v_idx = i + 1]
                /\ Goto(p, next)
           ELSE LET vehicle == loc[p].pickup_vec[i]
                    R == Returnable(g, loc[p].pickups_ids, vehicle.current_node)
                    pid == loc[p].pickups_ids[BestReturn(g, tc, loc[p].pickups_ids, vehicle.current_node)]
                IN  \E best_return_path \in
                        (IF R = {} THEN {<<>>} ELSE shortest_path(g, tc, vehicle.current_node, pid)) :
                        LET path == IF Len(best_return_path) > 1
                                    THEN vehicle.path \o Tail(best_return_path)
                                    ELSE vehicle.path
                        IN  /\ loc' = [loc EXCEPT ![p].pickup_vec[i].path = path,
                                                  ![p].all_paths = Append(@, path),
                                                  ![p].v_idx = i + 1]
                            /\ Goto(p, next)
    /\ UNCHANGED <<store, now, lastPut, hot>>

\* A routing graph: node 5 has no edge, the edge (2, 3, 0) costs as much as
\* the way over node 1, and two parallel edges join 1 and 2.
RoutingGraph ==
    Graph(FALSE, {1, 2, 3, 4, 5},
          [e \in {<<1, 2, 0>>, <<1, 2, 1>>, <<1, 3, 0>>, <<2, 3, 0>>, <<3, 4, 0>>} |-> Attr("absent")])
RoutingCost ==
    [e \in DOMAIN RoutingGraph.edges |->
        IF e = <<1, 2, 1>> THEN 300 ELSE IF e = <<2, 3, 0>> THEN 200
        ELSE IF e = <<3, 4, 0>> THEN 50 ELSE 100]

MaxSurvivors == 2
MaxPickups == 2
\* (urgency, count) of the survivors.
Profiles == {<<5, 1>>, <<1, 10>>, <<0, 0>>}
SurvivorNodes == {1, 2, 3, 5}
PickupNodes == {1, 4}
Survivors == {Survivor(n, x[1], x[2]) : n \in SurvivorNodes, x \in Profiles}

NextDispatch ==
    \/ \E survivors \in SeqsUpTo(Survivors, MaxSurvivors), pickups_ids \in SeqsUpTo(PickupNodes, MaxPickups) :
          solve_routes(1, RoutingGraph, RoutingCost, survivors, pickups_ids)
    \/ sr_loop(1)
    \/ sr_return(1)
    \/ Return(1)

SpecDispatch == Init /\ [][NextDispatch]_vars

\* solve_routes runs on: a pass of its loop that can be made is made.  This
\* is weak fairness of sr_loop(1) written out, a pass being possible exactly
\* when the call is in the loop.
LoopFairness == []<>(pc[1] # "sr_loop") \/ []<><<sr_loop(1)>>_vars
SpecDispatchFair == SpecDispatch /\ LoopFairness

\* ------------------------------------------------- infer_routes: routing
\* The statements of infer_routes after the integration: travel_cost on the
\* edges of G_routing, the pickups, the survivors and the call of the solver
\* (python_router.solve_routes, the solver used when the C++ module is not
\* installed).  A travel_cost is in tenths of a metre.

\* d.get('length', 1): the 'length' of a downloaded edge, and the length
\* split_edge_at_point computes for the two edges of a split.
length(e) == IF e[1] < 0 \/ e[2] < 0 THEN 100 ELSE 200

\* (mutant: a partial edge is weighted as a clear one)
StateMultiplier_BlockedOnly(state) == IF state = "blocked" THEN 10000 ELSE 1

\* mult = 10000 if state == 'blocked' else (5 if state == 'partial' else 1),
\* state being d.get('state', 'clear').
StateMultiplier(state) == IF state = "blocked" THEN 10000 ELSE IF state = "partial" THEN 5 ELSE 1

\* neural_discount = 1.0 - (prob * 0.8), in tenths, for a probability in tenths.
NeuralDiscount(prob) == 10 - ((prob * 8) \div 10)

\* What the predictor is at a call: not loaded (rescunet_model is None), or
\* loaded, with the probabilities it computes (one for the edges of a split,
\* one for the others) and the number of edges after which the try block
\* raises (-1: it does not).
Predictor(loaded, probs, fails) == [loaded |-> loaded, probs |-> probs, fails |-> fails]
NotLoaded == Predictor(FALSE, <<0, 0>>, -1)
Predictors ==
    {NotLoaded} \cup {Predictor(TRUE, pr, k) : pr \in {<<0, 0>>, <<5, 10>>, <<10, 5>>}, k \in {-1, 0, 1}}
ProbsOf(g, pr) == [e \in DOMAIN g.edges |-> IF e[1] < 0 \/ e[2] < 0 THEN pr[1] ELSE pr[2]]

\* The first k edges of ordered_edges.
FirstEdges(g, k) ==
    {e \in DOMAIN g.edges : Cardinality({x \in DOMAIN g.edges : EdgeLess(x, e)}) < k}

\* The loop over ordered_edges, over the edges in E.
NeuralCost(g, probs, E) ==
    [e \in E |-> length(e) * StateMultiplier(g.edges[e].state) * NeuralDiscount(probs[e])]

\* (mutant: the fallback leaves the costs already written)
StandardCost_KeepWritten(g, travel_cost) ==
    [e \in DOMAIN g.edges |->
        IF e \in DOMAIN travel_cost THEN travel_cost[e]
        ELSE length(e) * StateMultiplier(g.edges[e].state) * 10]

\* The loop over G_routing.edges(keys=True, data=True) of the fallback and of
\* the else branch: it assigns travel_cost on every edge.
StandardCost(g, travel_cost) ==
    [e \in DOMAIN g.edges |-> length(e) * StateMultiplier(g.edges[e].state) * 10]

\* travel_cost on the edges of G_routing after lines 431-466.
TravelCost(g, predictor) ==
    IF ~predictor.loaded THEN StandardCost(g, <<>>)
    ELSE IF predictor.fails = -1 THEN NeuralCost(g, ProbsOf(g, predictor.probs), DOMAIN g.edges)
    ELSE StandardCost(g, NeuralCost(g, ProbsOf(g, predictor.probs), FirstEdges(g, predictor.fails)))

\* pickups_ids of lines 469-471.
RECURSIVE PickupsIds(_)
PickupsIds(snapped_data) ==
    IF snapped_data = <<>> THEN <<>>
    ELSE (IF Head(snapped_data).req.type = "pickup" THEN <<Head(snapped_data).graph_id>> ELSE <<>>)
             \o PickupsIds(Tail(snapped_data))

\* survivors_map of lines 476-495, as the list of its values: one entry per
\* graph id, the urgency the maximum and the count the sum.
RECURSIVE SurvivorsMap(_, _)
SurvivorsMap(snapped_data, survivors_map) ==
    IF snapped_data = <<>> THEN survivors_map
    ELSE LET item == Head(snapped_data)
             S == {i \in 1..Len(survivors_map) : survivors_map[i].graph_id = item.graph_id}
             i == CHOOSE x \in S : TRUE
         IN  IF item.req.type # "survivor" THEN SurvivorsMap(Tail(snapped_data), survivors_map)
             ELSE IF S = {}
             THEN SurvivorsMap(Tail(snapped_data),
                               Append(survivors_map,
                                      Survivor(item.graph_id, The(item.req.urgency), The(item.req.count))))
             ELSE SurvivorsMap(Tail(snapped_data),
                               [survivors_map EXCEPT
                                   ![i].urgency = Max2(@, The(item.req.urgency)),
                                   ![i].count = @ + The(item.req.count)])

\* Lines 431-524: the costs, then "if not pickups_ids: raise HTTPException",
\* then the survivors and the call of solve_routes.
ir_cost(p, predictor) ==
    /\ pc[p] = "ir_cost"
    /\ LET g == The(loc[p].G_routing)
           costed == [loc[p] EXCEPT
                         !.travel_cost = Some(TravelCost(g, predictor)),
                         !.gnn = IF ~predictor.loaded THEN "none"
                                 ELSE IF predictor.fails = -1 THEN "ok" ELSE "failed",
                         !.probs = IF predictor.loaded /\ predictor.fails = -1
                                   THEN Some(ProbsOf(g, predictor.probs)) ELSE None,
                         !.written = IF predictor.loaded /\ predictor.fails # -1
                                     THEN Cardinality(FirstEdges(g, predictor.fails)) ELSE 0]
           pickups_ids == PickupsIds(loc[p].snapped)
       IN  IF pickups_ids = <<>>
           THEN /\ loc' = [loc EXCEPT ![p] = [costed EXCEPT !.exc = "HTTPException"]]
                /\ Goto(p, "ir_except")
           ELSE /\ loc' = [loc EXCEPT ![p] =
                              EnterSolveRoutes(costed, g, TravelCost(g, predictor),
                                               SurvivorsMap(loc[p].snapped, <<>>), pickups_ids)]
                /\ Goto(p, "sr_loop")
    /\ UNCHANGED <<store, now, lastPut, hot>>

\* Lines 526-554: the routes as features, status 200.
ir_response(p) ==
    /\ pc[p] = "ir_response"
    /\ loc' = [loc EXCEPT ![p].status_code = 200]
    /\ Goto(p, "done")
    /\ UNCHANGED <<store, now, lastPut, hot>>

\* Requests with pickups: a pickup at node 3 and survivors on the edges
\* (1, 2) and (2, 3); a pickup at node 1 and a survivor on the edge (2, 3),
\* blocked; survivors only; a survivor with urgency 0 and count 0.
RouteRequests ==
    {Request(Box(Flt(FALSE, 1)), <<Mod(1, 2, 0, "partial")>>,
             <<RoutePoint("p1", "pickup", None, None, 400, <<2, 3, 0>>, <<400, 200, 10>>),
               RoutePoint("s1", "survivor", Some(5), Some(1), 100, <<1, 2, 0>>, <<100, 100, 300>>),
               RoutePoint("s2", "survivor", Some(1), Some(10), 300, <<2, 3, 0>>, <<300, 100, 100>>)>>),
     Request(Box(Flt(FALSE, 1)), <<Mod(2, 3, 0, "blocked")>>,
             <<RoutePoint("p1", "pickup", None, None, 0, <<1, 2, 0>>, <<10, 190, 390>>),
               RoutePoint("s1", "survivor", Some(5), Some(1), 300, <<2, 3, 0>>, <<300, 100, 120>>)>>),
     Request(Box(Flt(FALSE, 1)), <<>>,
             <<RoutePoint("s1", "survivor", Some(5), Some(1), 300, <<2, 3, 0>>, <<300, 100, 100>>)>>),
     Request(Box(Flt(FALSE, 1)), <<>>,
             <<RoutePoint("p1", "pickup", None, None, 0, <<1, 2, 0>>, <<10, 190, 390>>),
               RoutePoint("s1", "survivor", Some(0), Some(0), 200, <<1, 2, 0>>, <<190, 10, 200>>)>>)}

\* One caller of /api/infer-routes, the predictor being whatever it can be.
NextRoute ==
    \/ \E r \in RouteRequests : infer_routes(1, r, 0)
    \/ CacheStep(1)
    \/ RouteStep(1)
    \/ \E predictor \in Predictors : ir_cost(1, predictor)
    \/ sr_loop(1)
    \/ sr_return(1)
    \/ ir_response(1)

SpecRoute == Init /\ [][NextRoute]_vars

\* Concurrent requests: /api/load-graph (get_graph) and /api/infer-routes
\* run in the server's thread pool, their statements interleaved; the
\* predictor is not loaded.
NextConc ==
    \/ Tick(ConcStep, MaxClockConc)
    \/ \E p \in Procs :
          \/ \E r \in Requests : get_graph(p, r.bbox, now)
          \/ \E r \in Requests : infer_routes(p, r, now)
          \/ CacheStep(p)
          \/ RouteStep(p)
          \/ ir_cost(p, NotLoaded)

SpecConc == Init /\ [][NextConc]_vars

\* ------------------------------------------------------------ concurrency
Missed(p) ==
    /\ loc[p].fn = "get_graph"
    /\ Returned(p)
    /\ ~Hit(p)
    /\ loc[p].exc = ""

BothMissed(p, q) ==
    /\ p # q
    /\ Missed(p)
    /\ Missed(q)
    /\ loc[p].cache_key = loc[q].cache_key

LastPutRow(k) ==
    LET w == lastPut.by
    IN  Row(k, dumps(The(loc[w].G)), loc[w].save_time, loc[w].save_time)

InFlightFor(p) == now - loc[p].started

Unedited(g) ==
    /\ g \in Downloads
    /\ \A e \in DOMAIN g.edges : g.edges[e].state = "absent"

Editing(p) ==
    /\ loc[p].fn = "infer_routes"
    /\ pc[p] \in {"ir_edit", "ir_integrate"}

\* C10: the edge-state edits and the splits of an infer_routes call are made
\* on that call's own copies G_viz and G_routing: every payload in the store
\* is at all times a graph as downloaded, a call's copies are the unedited
\* graph of the cache when its edits begin, and an edit or integrate step
\* changes neither the store nor the cached graph of its call nor anything of
\* another call.
C10_EditsOnCopies ==
    /\ [](/\ \A r \in store : Unedited(loads(r.graph_blob))
          /\ \A p \in Procs :
                (loc[p].fn = "infer_routes" /\ pc[p] = "ir_edit") =>
                    /\ Unedited(The(loc[p].G_cached))
                    /\ loc[p].G_viz = loc[p].G_cached
                    /\ The(loc[p].G_routing) = to_undirected(The(loc[p].G_cached)))
    /\ [][\A p \in Procs :
            (Editing(p) /\ pc'[p] # pc[p]) =>
                /\ store' = store
                /\ loc'[p].G_cached = loc[p].G_cached
                /\ \A q \in Procs \ {p} : loc'[q] = loc[q]]_vars

\* One call has finished with a blocked edge and a split in its copies;
\* another call on the same bounding box begins its edits from the unedited
\* graph, which is still what the store holds.
C10_Witness ==
    \E p, q \in Procs :
        /\ p # q
        /\ loc[p].fn = "infer_routes" /\ pc[p] = "done" /\ loc[p].G_viz # None
        /\ \E e \in DOMAIN The(loc[p].G_viz).edges : The(loc[p].G_viz).edges[e].state = "blocked"
        /\ \E n \in The(loc[p].G_viz).nodes : n < 0
        /\ \E n \in The(loc[p].G_routing).nodes : n < 0
        /\ loc[q].fn = "infer_routes" /\ pc[q] = "ir_edit"
        /\ loc[q].cache_key = loc[p].cache_key
        /\ Unedited(The(loc[q].G_cached))
        /\ \E r \in RowsOf(store, The(loc[p].cache_key)) :
              /\ loads(r.graph_blob) = The(loc[p].G_cached)
              /\ loads(r.graph_blob) = The(loc[q].G_cached)

\* --------------------------------------------------------------- mutators
Edited(p) == loc[p].fn = "mutators" /\ pc[p] = "edited"
LastEdit(p) == loc[p].edges[Len(loc[p].edges)]
StateOf(g, u, v, k) == g.edges[EdgeId(g, u, v, k)].state

\* C11: after edit_edges has applied a modification (u, v, key, state) to a
\* graph that has the edge (u, v, key) and at least one edge from v to u, the
\* edge (u, v, key) and every edge from v to u have that state.
C11_ReverseEdgesShareState ==
    \A p \in Procs :
        Edited(p) =>
            LET m == LastEdit(p)
                b == The(loc[p].before)
                g == The(loc[p].G_viz)
            IN  (has_edge(b, m.u, m.v, m.key) /\ has_any_edge(b, m.v, m.u)) =>
                    /\ has_edge(g, m.u, m.v, m.key)
                    /\ StateOf(g, m.u, m.v, m.key) = m.state
                    /\ KeysBetween(g, m.v, m.u) = KeysBetween(b, m.v, m.u)
                    /\ \A k \in KeysBetween(g, m.v, m.u) : StateOf(g, m.v, m.u, k) = m.state

\* A directed graph with two parallel edges from v to u has been edited at
\* (u, v, key): the three edges have the new state.
C11_Witness ==
    \E p \in Procs :
        /\ Edited(p)
        /\ The(loc[p].G_viz).directed
        /\ Len(loc[p].edges) = 1
        /\ LET m == LastEdit(p)
               b == The(loc[p].before)
               g == The(loc[p].G_viz)
           IN  /\ has_edge(b, m.u, m.v, m.key)
               /\ Cardinality(KeysBetween(b, m.v, m.u)) = 2
               /\ StateOf(g, m.u, m.v, m.key) = "blocked"
               /\ \A k \in KeysBetween(g, m.v, m.u) :
                      StateOf(b, m.v, m.u, k) = "absent" /\ StateOf(g, m.v, m.u, k) = "blocked"

\* C12 (as claimed): a modification whose edge (u, v, key) is not in the
\* graph is ignored by edit_edges: the graph after it is the graph before.
C12_AbsentTargetIgnored ==
    \A p \in Procs :
        (Edited(p) /\ Len(loc[p].edges) = 1) =>
            LET m == LastEdit(p)
            IN  ~has_edge(The(loc[p].before), m.u, m.v, m.key) => loc[p].G_viz = loc[p].before

WasSplit(p) == loc[p].fn = "mutators" /\ pc[p] = "split"

\* C13: split_edge_at_point for an edge (u, v, key) that is not in the graph
\* returns None and leaves the graph as it was: its nodes, its edges and their
\* attributes.
C13_SplitAbsentEdge ==
    \A p \in Procs :
        WasSplit(p) =>
            LET a == The(loc[p].split)
            IN  ~has_edge(The(loc[p].before), a.u, a.v, a.key) =>
                    /\ loc[p].new_node_id = None
                    /\ loc[p].G_viz = loc[p].before

\* The edge had been split before: the second call for it returns None.
C13_Witness ==
    \E p \in Procs :
        /\ WasSplit(p)
        /\ loc[p].nsplit = 2
        /\ \E n \in The(loc[p].before).nodes : n < 0
        /\ ~has_edge(The(loc[p].before), The(loc[p].split).u, The(loc[p].split).v, The(loc[p].split).key)
        /\ has_any_edge(The(loc[p].before), The(loc[p].split).v, The(loc[p].split).u)
        /\ loc[p].new_node_id = None

SplitDone(p) == WasSplit(p) /\ loc[p].new_node_id # None

\* C14 (as claimed): after a split_edge_at_point(G, u, v, key, point) that
\* returned n, the edge (u, v, key) is not in the graph, the edges (u, n, 0)
\* and (n, v, 0) are and have the state the edge had, and every other edge
\* the graph had before the call is still there with the attributes it had.
C14_SplitFrame ==
    \A p \in Procs :
        SplitDone(p) =>
            LET a == The(loc[p].split)
                n == The(loc[p].new_node_id)
                b == The(loc[p].before)
                g == The(loc[p].G_viz)
            IN  /\ ~has_edge(g, a.u, a.v, a.key)
                /\ has_edge(g, a.u, n, 0) /\ StateOf(g, a.u, n, 0) = StateOf(b, a.u, a.v, a.key)
                /\ has_edge(g, n, a.v, 0) /\ StateOf(g, n, a.v, 0) = StateOf(b, a.u, a.v, a.key)
                /\ \A e \in DOMAIN b.edges \ {EdgeId(b, a.u, a.v, a.key)} :
                       e \in DOMAIN g.edges /\ g.edges[e] = b.edges[e]

\* C15 (as claimed): the node id that a split_edge_at_point returns is
\* strictly negative, whatever the hash comes to.
C15_SplitIdNegative ==
    \A p \in Procs : SplitDone(p) => The(loc[p].new_node_id) < 0

Integrated(p) == loc[p].fn = "mutators" /\ pc[p] = "integrated"

\* C16: integrate_nodes_into_graph returns one entry of snapped_nodes for
\* every node of its input, in the order of the input, also when several
\* nodes resolve to the same graph node, and every graph_id returned is a
\* node of the graph returned.
C16_OneSnappedPerNode ==
    \A p \in Procs :
        Integrated(p) =>
            /\ Len(loc[p].snapped) = Len(loc[p].nodes)
            /\ \A i \in 1..Len(loc[p].snapped) :
                   /\ loc[p].snapped[i].req = loc[p].nodes[i]
                   /\ loc[p].snapped[i].graph_id \in The(loc[p].G_viz).nodes

\* Two different nodes of the input have resolved to the same graph node.
C16_Witness ==
    \E p \in Procs :
        /\ Integrated(p)
        /\ Len(loc[p].nodes) = 2
        /\ loc[p].nodes[1] # loc[p].nodes[2]
        /\ Len(loc[p].snapped) = 2
        /\ loc[p].snapped[1].graph_id = loc[p].snapped[2].graph_id
        /\ loc[p].snapped[1].req = loc[p].nodes[1]
        /\ loc[p].snapped[2].req = loc[p].nodes[2]

InLoop(p) == loc[p].fn = "mutators" /\ pc[p] = "in_loop"
NodeReq(p) == loc[p].nodes[Len(loc[p].snapped) + 1]
NearestU(p) == nearest_edges(The(loc[p].G_undir), NodeReq(p))[1]
NearestV(p) == nearest_edges(The(loc[p].G_undir), NodeReq(p))[2]
NearestKey(p) == nearest_edges(The(loc[p].G_undir), NodeReq(p))[3]

\* C17: in a pass of the loop of integrate_nodes_into_graph, when endpoint u
\* of the nearest edge is less than 50 m from the node, the node resolves to
\* u, otherwise when v is less than 50 m away it resolves to v, whatever the
\* state of the edge; and that pass leaves the nodes and edges of the graph
\* as they were.
C17_SnapToEndpoint ==
    [][\A p \in Procs :
          (InLoop(p) /\ loc'[p] # loc[p]) =>
              LET d == NodeReq(p).d
                  u == NearestU(p)
                  v == NearestV(p)
                  graph_id == loc'[p].snapped[Len(loc'[p].snapped)].graph_id
              IN  /\ d[u] < 50 => (graph_id = u /\ loc'[p].G_viz = loc[p].G_viz)
                  /\ (d[u] >= 50 /\ d[v] < 50) => (graph_id = v /\ loc'[p].G_viz = loc[p].G_viz)]_vars

\* A node 60 m from u and 20 m from v of an edge that is not blocked has
\* resolved to v, and the graph is the one before the pass.
C17_Witness ==
    \E p \in Procs :
        /\ loc[p].fn = "mutators" /\ pc[p] \in {"in_loop", "integrated"}
        /\ loc[p].snapped # <<>>
        /\ LET last == loc[p].snapped[Len(loc[p].snapped)]
               u == last.req.on[1]
               v == last.req.on[2]
               g == The(loc[p].G_viz)
           IN  /\ last.req.d[u] >= 50 /\ last.req.d[v] < 50
               /\ last.graph_id = v
               /\ has_edge(g, u, v, last.req.on[3])
               /\ StateOf(g, u, v, last.req.on[3]) = "partial"
               /\ loc[p].before = loc[p].G_viz

\* A pass of the loop of integrate_nodes_into_graph has just been made.
PassDone(p) ==
    /\ loc[p].fn = "mutators"
    /\ pc[p] \in {"in_loop", "integrated"}
    /\ loc[p].snapped # <<>>

LastSnapped(p) == loc[p].snapped[Len(loc[p].snapped)]
LastEdge(p) == nearest_edges(The(loc[p].G_undir), LastSnapped(p).req)
LastState(p) == EffectiveState(The(loc[p].before), LastEdge(p)[1], LastEdge(p)[2], LastEdge(p)[3])

\* C18 (as claimed): integrate_nodes_into_graph, on a graph that edit_edges
\* has edited, passes no edge in state blocked to split_edge_at_point, be it
\* the nearest edge or the edge of the reverse direction; and a node whose
\* nearest edge is blocked (no endpoint within 50 m) resolves to the nearer
\* endpoint.
C18_NoSplitOfBlocked ==
    \A p \in Procs :
        PassDone(p) =>
            /\ \A i \in 1..Len(loc[p].calls) : loc[p].calls[i].state # "blocked"
            /\ LET d == LastSnapped(p).req.d
                   u == LastEdge(p)[1]
                   v == LastEdge(p)[2]
               IN  (LastState(p) = "blocked" /\ d[u] >= 50 /\ d[v] >= 50) =>
                       LastSnapped(p).graph_id = (IF d[u] < d[v] THEN u ELSE v)

\* C19 (as claimed): for a node whose nearest edge is not blocked and whose
\* distance to both endpoints is at least 50 m, the node resolves to a node
\* made by a split whenever a split_edge_at_point of the pass succeeded, and
\* to endpoint u only when none did.
C19_ResolvesToSplitNode ==
    \A p \in Procs :
        PassDone(p) =>
            LET d == LastSnapped(p).req.d
                u == LastEdge(p)[1]
                v == LastEdge(p)[2]
                made == {The(loc[p].calls[i].id) :
                            i \in {j \in 1..Len(loc[p].calls) : loc[p].calls[j].id # None}}
            IN  (LastState(p) # "blocked" /\ d[u] >= 50 /\ d[v] >= 50) =>
                    /\ made # {} => LastSnapped(p).graph_id \in made
                    /\ LastSnapped(p).graph_id = u => made = {}

Deduplicated(p) == loc[p].fn = "deduplicate_nodes" /\ pc[p] = "deduplicated"

\* C20 (as claimed): of two nodes less than 10 m apart deduplicate_nodes
\* returns one, the first, with the larger of the two urgencies and the sum
\* of the two counts; two nodes at least 10 m apart are both returned
\* unchanged.
C20_MergeWithin10m ==
    \A p \in Procs :
        (Deduplicated(p) /\ Len(loc[p].nodes) = 2) =>
            LET a == loc[p].nodes[1]
                b == loc[p].nodes[2]
                out == loc[p].unique_nodes
            IN  /\ loc[p].exc = ""
                /\ haversine_distance(a, b) >= 10 => out = <<a, b>>
                /\ haversine_distance(a, b) < 10 =>
                       /\ Len(out) = 1
                       /\ out[1].id = a.id /\ out[1].pos = a.pos /\ out[1].type = a.type
                       /\ out[1].urgency \in {a.urgency, b.urgency}
                       /\ \A x \in a.urgency \cup b.urgency : The(out[1].urgency) >= x
                       /\ a.count # None /\ b.count # None
                       /\ out[1].count = Some(The(a.count) + The(b.count))

\* --------------------------------------------------------------- dispatch
\* The claims about solve_routes, under SpecDispatch.

Dispatching == loc[1].fn = "solve_routes"
LoopOver == Dispatching /\ pc[1] \in {"sr_return", "done"}
Finished == Dispatching /\ pc[1] = "done"
\* A pass of the loop that assigns a survivor, and what it assigned.
Assigns == pc[1] = "sr_loop" /\ Len(loc'[1].assigned) = Len(loc[1].assigned) + 1
Assigned == loc'[1].assigned[Len(loc'[1].assigned)]
Range(seq) == {seq[k] : k \in 1..Len(seq)}
Dist(a, b) == shortest_path_length(The(loc[1].G_routing), The(loc[1].travel_cost), a, b)
Connected(a, b) == HasPath(The(loc[1].G_routing), a, b)

\* C21: the pair a pass assigns has the least
\* (total_distance + distance) / (urgency^2 + count) of all pairs of a vehicle
\* and a remaining survivor that is reachable and not at the vehicle's node;
\* with one pickup and survivors (5, 1) and (1, 10) both at distance 100, the
\* survivor (5, 1) is the first assigned.
C21_MinimumScoreAssigned ==
    /\ [][Assigns =>
            LET vec == loc[1].pickup_vec
                rem == loc[1].remaining_survivors
                S == Scored(The(loc[1].G_routing), The(loc[1].travel_cost), vec, rem)
                arrival(c) == vec[c[1]].total_distance + Dist(vec[c[1]].current_node, rem[c[2]].graph_id)
                square_plus(c) == (rem[c[2]].urgency * rem[c[2]].urgency) + rem[c[2]].count
            IN  \E j \in 1..Len(rem) :
                    /\ rem[j] = Assigned.survivor
                    /\ loc'[1].remaining_survivors = Pop(rem, j)
                    /\ <<Assigned.vehicle, j>> \in S
                    /\ \A d \in S :
                          arrival(<<Assigned.vehicle, j>>) * square_plus(d)
                              <= arrival(d) * square_plus(<<Assigned.vehicle, j>>)]_vars
    /\ [](/\ Dispatching
          /\ loc[1].pickups_ids = <<1>>
          /\ Len(loc[1].survivors) = 2
          /\ Range(loc[1].survivors) = {Survivor(2, 5, 1), Survivor(3, 1, 10)}
          /\ Len(loc[1].assigned) >= 1
          => loc[1].assigned[1].survivor = Survivor(2, 5, 1))

C21_Witness ==
    /\ Finished
    /\ loc[1].pickups_ids = <<1>>
    /\ loc[1].survivors = <<Survivor(3, 1, 10), Survivor(2, 5, 1)>>
    /\ Dist(1, 2) = 100 /\ Dist(1, 3) = 100
    /\ Len(loc[1].assigned) = 2
    /\ loc[1].assigned[1].survivor = Survivor(2, 5, 1)

\* A survivor no pickup has a path to.
Unreachable(survivor) == \A k \in 1..Len(loc[1].pickups_ids) : ~Connected(loc[1].pickups_ids[k], survivor.graph_id)
\* A remaining survivor no vehicle can be sent to: no path, or the vehicle
\* stands on the survivor's node.
NoPair(survivor) ==
    \A i \in 1..Len(loc[1].pickup_vec) :
        \/ loc[1].pickup_vec[i].current_node = survivor.graph_id
        \/ ~Connected(loc[1].pickup_vec[i].current_node, survivor.graph_id)
OnSomePath(n) ==
    \/ \E k \in 1..Len(loc[1].all_paths) : n \in Range(loc[1].all_paths[k])
    \/ \E i \in 1..Len(loc[1].pickup_vec) : n \in Range(loc[1].pickup_vec[i].path)

C23_NoErrorOnValidInput ==
    /\ Dispatching
    /\ Len(loc[1].pickups_ids) >= 1
    /\ Range(loc[1].pickups_ids) \subseteq The(loc[1].G_routing).nodes
    /\ \A k \in 1..Len(loc[1].survivors) :
          /\ loc[1].survivors[k].graph_id \in The(loc[1].G_routing).nodes
          /\ loc[1].survivors[k].urgency >= 0 /\ loc[1].survivors[k].count >= 0
    => pc[1] # "raised"

\* Vehicle i has not yet been given its return path.
InTheField(i) == pc[1] = "sr_loop" \/ (pc[1] = "sr_return" /\ i >= loc[1].v_idx)

Served(i) == \E a \in 1..Len(loc[1].assigned) : loc[1].assigned[a].vehicle = i

\* C26: the return pass of a vehicle that served a survivor appends a
\* shortest path, without its first node, to a pickup no other pickup is
\* nearer than; since the routing graph is undirected, every returned path
\* ends at a pickup node.
C26_ReturnToNearestPickup ==
    /\ [][/\ Dispatching /\ pc[1] = "sr_return"
          /\ loc[1].v_idx <= Len(loc[1].pickup_vec)
          /\ Served(loc[1].v_idx)
          => LET i == loc[1].v_idx
                 vehicle == loc[1].pickup_vec[i]
                 ids == loc[1].pickups_ids
             IN  \E n \in 1..Len(ids) :
                     /\ \A m \in 1..Len(ids) : Dist(vehicle.current_node, ids[n]) <= Dist(vehicle.current_node, ids[m])
                     /\ \E q \in shortest_path(The(loc[1].G_routing), The(loc[1].travel_cost),
                                               vehicle.current_node, ids[n]) :
                           /\ loc'[1].pickup_vec[i].path = vehicle.path \o Tail(q)
                           /\ loc'[1].all_paths = Append(loc[1].all_paths, vehicle.path \o Tail(q))]_vars
    /\ [](Finished /\ ~The(loc[1].G_routing).directed =>
            \A k \in 1..Len(loc[1].all_paths) :
                loc[1].all_paths[k][Len(loc[1].all_paths[k])] \in Range(loc[1].pickups_ids))

C26_Witness ==
    /\ Finished
    /\ \E k \in 1..Len(loc[1].all_paths) :
          LET path == loc[1].all_paths[k]
          IN  /\ path[1] # path[Len(path)]
              /\ path[Len(path)] \in Range(loc[1].pickups_ids)

\* C27: the output is the paths of the vehicles that were assigned a
\* survivor, in the order of the pickup list; each has two nodes or more and
\* there are no more paths than pickups.
C27_OutputIsServingVehicles ==
    Finished =>
        LET used == SelectSeq([i \in 1..Len(loc[1].pickup_vec) |-> i], Served)
        IN  /\ loc[1].all_paths = [k \in 1..Len(used) |-> loc[1].pickup_vec[used[k]].path]
            /\ \A k \in 1..Len(loc[1].all_paths) : Len(loc[1].all_paths[k]) >= 2
            /\ Len(loc[1].all_paths) <= Len(loc[1].pickups_ids)

C27_Witness ==
    /\ Finished
    /\ Len(loc[1].pickups_ids) = 2
    /\ Len(loc[1].all_paths) = 1
    /\ ~Served(1) /\ Served(2)

\* ------------------------------------------------- infer_routes: routing
\* The claims about the routing statements of infer_routes, under
\* SpecRoute.

Routing == loc[1].fn = "infer_routes"
DispatchStarted == Routing /\ pc[1] \in {"sr_loop", "sr_return", "ir_response"}
NoPickup(r) == \A k \in 1..Len(r.nodes) : r.nodes[k].type # "pickup"

\* C24 as stated: a call whose request names no pickup is at no statement of
\* the graph work (cache lookup, fetch, cache write, edit, integration), holds
\* no graph, and ends with a client error status.
C24_RejectedBeforeGraphWork ==
    Routing /\ NoPickup(The(loc[1].req)) =>
        /\ pc[1] \in {"idle", "done"}
        /\ loc[1].G_cached = None /\ loc[1].G_routing = None
        /\ pc[1] = "done" => loc[1].status_code \in 400..499

\* The multiplier of a state, and the state the edits of the request leave on
\* an edge of the downloaded graph: in the undirected routing graph a
\* modification sets every edge between its two nodes.
Multiplier(state) ==
    CASE state = "blocked" -> 10000
      [] state = "partial" -> 5
      [] state \in {"clear", "absent"} -> 1
EditedState(e) ==
    LET mods == The(loc[1].req).modified_edges
        M == {i \in 1..Len(mods) : {mods[i].u, mods[i].v} = {e[1], e[2]}}
    IN  IF M = {} THEN "absent" ELSE mods[CHOOSE i \in M : \A j \in M : j <= i].state
IsSplitEdge(e) == e[1] < 0 \/ e[2] < 0
Discounted(e) ==
    IF loc[1].gnn = "ok" THEN 10 - ((The(loc[1].probs)[e] * 8) \div 10) ELSE 10

\* C28: when the solver is running, every edge of G_routing has a
\* travel_cost, equal to length x multiplier x discount (in tenths), the
\* multiplier being 1 for clear or no state, 5 for partial, 10000 for
\* blocked; the state of an edge of the downloaded graph is the one the
\* request's modifications leave on it.
C28_EveryEdgeCosted ==
    DispatchStarted =>
        LET g == The(loc[1].G_routing)
            travel_cost == The(loc[1].travel_cost)
        IN  /\ DOMAIN travel_cost = DOMAIN g.edges
            /\ \A e \in DOMAIN g.edges :
                  /\ travel_cost[e] = length(e) * Multiplier(g.edges[e].state) * Discounted(e)
                  /\ ~IsSplitEdge(e) => g.edges[e].state = EditedState(e)

C28_Witness ==
    /\ DispatchStarted
    /\ loc[1].gnn = "ok"
    /\ <<-3, 1, 0>> \in DOMAIN The(loc[1].G_routing).edges
    /\ The(loc[1].G_routing).edges[<<-3, 1, 0>>].state = "partial"
    /\ The(loc[1].travel_cost)[<<-3, 1, 0>>] = 1000
    /\ <<-5, 2, 0>> \in DOMAIN The(loc[1].G_routing).edges
    /\ The(loc[1].G_routing).edges[<<-5, 2, 0>>].state = "absent"
    /\ The(loc[1].travel_cost)[<<-5, 2, 0>>] = 200

\* C29: when the predictor is not loaded or its try block raised, also after
\* costs were written, every edge has the cost length x multiplier with no
\* discount, and the step that sets the costs goes on to the solver with no
\* error (or to the error of a request without pickup).
C29_FallbackUndiscounted ==
    /\ [](DispatchStarted /\ loc[1].gnn \in {"none", "failed"} =>
            \A e \in DOMAIN The(loc[1].G_routing).edges :
                /\ e \in DOMAIN The(loc[1].travel_cost)
                /\ The(loc[1].travel_cost)[e] =
                      length(e) * Multiplier(The(loc[1].G_routing).edges[e].state) * 10)
    /\ [][pc[1] = "ir_cost" /\ loc'[1].gnn \in {"none", "failed"} =>
            IF \E k \in 1..Len(loc[1].snapped) : loc[1].snapped[k].req.type = "pickup"
            THEN pc'[1] = "sr_loop" /\ loc'[1].exc = ""
            ELSE pc'[1] = "ir_except" /\ loc'[1].exc = "HTTPException"]_vars

C29_Witness ==
    /\ DispatchStarted
    /\ loc[1].gnn = "failed"
    /\ loc[1].written >= 1
    /\ \E e \in DOMAIN The(loc[1].G_routing).edges : IsSplitEdge(e)

\* --------------------------------------------------------- edge states
\* C30 as stated, under SpecStates: after any sequence of edit_edges,
\* split_edge_at_point and integrate_nodes_into_graph, the state of every
\* edge that has one is clear, partial or blocked.
C30_StateInDomain ==
    loc[1].fn = "mutators" =>
        \A e \in DOMAIN The(loc[1].G_viz).edges :
            The(loc[1].G_viz).edges[e].state \in {"absent", "clear", "partial", "blocked"}

\* ------------------------------------------------ dispatch: behaviour
\* How often record x occurs in seq.
Count(seq, x) == Cardinality({k \in 1..Len(seq) : seq[k] = x})
AssignedSurvivors == [a \in 1..Len(loc[1].assigned) |-> loc[1].assigned[a].survivor]

C32_LoopTerminates ==
    /\ [][pc[1] = "sr_loop" =>
            \/ /\ pc'[1] = "sr_loop"
               /\ Len(loc'[1].remaining_survivors) = Len(loc[1].remaining_survivors) - 1
               /\ Len(loc'[1].assigned) = Len(loc[1].assigned) + 1
               /\ \A x \in Range(loc[1].remaining_survivors) :
                     Count(loc'[1].remaining_survivors, x) =
                         Count(loc[1].remaining_survivors, x) - (IF x = Assigned.survivor THEN 1 ELSE 0)
            \/ /\ pc'[1] # "sr_loop"
               /\ loc'[1].remaining_survivors = loc[1].remaining_survivors
               /\ loc'[1].assigned = loc[1].assigned]_vars
    /\ [](Dispatching =>
            /\ Len(loc[1].assigned) <= Len(loc[1].survivors)
            /\ \A a \in 1..Len(loc[1].assigned) :
                  /\ loc[1].assigned[a].vehicle \in 1..Len(loc[1].pickups_ids)
                  /\ Count(AssignedSurvivors, loc[1].assigned[a].survivor)
                        <= Count(loc[1].survivors, loc[1].assigned[a].survivor))
    /\ (pc[1] = "sr_loop") ~> (pc[1] # "sr_loop")

\* The loop has been left after as many assigning passes as there are
\* survivors, by two vehicles.
C32_Witness ==
    /\ LoopOver
    /\ Len(loc[1].survivors) = 2
    /\ Len(loc[1].assigned) = 2
    /\ loc[1].assigned[1].vehicle # loc[1].assigned[2].vehicle
    /\ loc[1].remaining_survivors = <<>>

\* C36: of the pairs with the least score in a pass, the one assigned has the
\* lowest vehicle index and, for that vehicle, the lowest index in the
\* remaining list; and what the next pass starts from (every vehicle's node
\* and distance, the remaining list) is the same whichever shortest path was
\* taken, so the order of the assignments follows from the graph, the
\* survivor list and the pickup list alone.
C36_TiesByScanOrder ==
    [][Assigns =>
          LET vec == loc[1].pickup_vec
              rem == loc[1].remaining_survivors
              S == Scored(The(loc[1].G_routing), The(loc[1].travel_cost), vec, rem)
              arrival(c) == vec[c[1]].total_distance + Dist(vec[c[1]].current_node, rem[c[2]].graph_id)
              square_plus(c) == (rem[c[2]].urgency * rem[c[2]].urgency) + rem[c[2]].count
              least(c) == \A d \in S : arrival(c) * square_plus(d) <= arrival(d) * square_plus(c)
              v == Assigned.vehicle
          IN  /\ \E j \in 1..Len(rem) :
                    /\ rem[j] = Assigned.survivor
                    /\ loc'[1].remaining_survivors = Pop(rem, j)
                    /\ <<v, j>> \in S
                    /\ least(<<v, j>>)
                    /\ \A d \in S : least(d) => (v < d[1] \/ (v = d[1] /\ j <= d[2]))
              /\ Len(loc'[1].pickup_vec) = Len(vec)
              /\ \A i \in 1..Len(vec) :
                    IF i = v
                    THEN /\ loc'[1].pickup_vec[i].current_node = Assigned.survivor.graph_id
                         /\ loc'[1].pickup_vec[i].total_distance =
                                vec[i].total_distance + Dist(vec[i].current_node, Assigned.survivor.graph_id)
                    ELSE loc'[1].pickup_vec[i] = vec[i]]_vars

\* Two vehicles at node 1 and two survivors of one urgency and count at the
\* same distance from it: all four pairs tie, and the first vehicle was
\* given the first survivor of the list.
C36_Witness ==
    /\ Finished
    /\ loc[1].pickups_ids = <<1, 1>>
    /\ loc[1].survivors = <<Survivor(3, 5, 1), Survivor(2, 5, 1)>>
    /\ Dist(1, 3) = Dist(1, 2)
    /\ Len(loc[1].assigned) = 2
    /\ loc[1].assigned[1] = [vehicle |-> 1, survivor |-> Survivor(3, 5, 1)]

\* ------------------------------------------------- mutators: behaviour
\* C33 (as claimed): the nearest edge selected for a node in a pass of
\* integrate_nodes_into_graph is an edge of the graph as it is when the pass
\* begins, in one direction or the other; and a node at least 50 m from both
\* endpoints of such an edge, the edge not being blocked, has the edge split
\* for it in this pass (what the node then resolves to is C19).
C33_NearestEdgeIsCurrent ==
    \A p \in Procs :
        PassDone(p) =>
            LET d == LastSnapped(p).req.d
                u == LastEdge(p)[1]
                v == LastEdge(p)[2]
                key == LastEdge(p)[3]
                b == The(loc[p].before)
                made == {The(loc[p].calls[i].id) :
                            i \in {j \in 1..Len(loc[p].calls) : loc[p].calls[j].id # None}}
            IN  /\ has_edge(b, u, v, key) \/ has_edge(b, v, u, key)
                /\ (LastState(p) # "blocked" /\ d[u] >= 50 /\ d[v] >= 50) => made # {}

\* C34 (as claimed): a split_edge_at_point that returned n, be it the first
\* or a later split of the graph, has added one node, n, which the graph did
\* not have, and one edge on balance: (u, n, 0) and (n, v, 0), neither of
\* which the graph had, for the edge (u, v, key) it removed.
C34_SplitAddsOneNode ==
    \A p \in Procs :
        SplitDone(p) =>
            LET a == The(loc[p].split)
                n == The(loc[p].new_node_id)
                b == The(loc[p].before)
                g == The(loc[p].G_viz)
            IN  /\ n \notin b.nodes
                /\ g.nodes = b.nodes \cup {n}
                /\ Cardinality(g.nodes) = Cardinality(b.nodes) + 1
                /\ Cardinality(DOMAIN g.edges) = Cardinality(DOMAIN b.edges) + 1
                /\ ~has_edge(b, a.u, n, 0)
                /\ ~has_edge(b, n, a.v, 0)

\* C35 (as claimed): deduplicate_nodes returns without error for every list
\* of nodes, pickups within 10 m of another node included; the nodes it
\* returns are pairwise at least 10 m apart, and a pickup is among them
\* whenever one is in the list.
C35_DeduplicateTotal ==
    \A p \in Procs :
        Deduplicated(p) =>
            LET out == loc[p].unique_nodes
            IN  /\ loc[p].exc = ""
                /\ \A i, j \in 1..Len(out) : i # j => haversine_distance(out[i], out[j]) >= 10
                /\ (\E i \in 1..Len(loc[p].nodes) : loc[p].nodes[i].type = "pickup")
                      => \E j \in 1..Len(out) : out[j].type = "pickup"

====
